---- MODULE Spec2Model ----
(***************************************************************************)
(* Verification model of the invoice front end: the Marathi transliteration *)
(* engine with its lazily loaded Aksharamukha backend                       *)
(* (src/src/components/InvoicePreview.tsx, src/src/utils/                   *)
(* marathiTransliteration.ts) and the direct-entry invoice calculation      *)
(* helpers (src/unnamed/part_001).                                          *)
(*                                                                         *)
(* Text is a sequence of characters.  A character is a one-character string *)
(* for ASCII and the code point name "U09xx" for a Devanagari character.    *)
(***************************************************************************)
EXTENDS Integers, Sequences, FiniteSets, TLC

VARIABLES
    \* ---- the browser and the module-level state of transliterate.ts
    hasWindow,              \* typeof window !== 'undefined'
    winAksharamukha,        \* window.Aksharamukha is set
    scriptEl,               \* the <script src*="aksharamukha"> element
    Aksharamukha,           \* let Aksharamukha (TRUE: the class, FALSE: null)
    isLoadingAksharamukha,  \* let isLoadingAksharamukha
    loadPromise,            \* let loadPromise (0: null, else the load's id)
    loadState,              \* per load: how far its async body has come
    aksharamukhaInstance,   \* let aksharamukhaInstance (0: null, else id)
    newCalls,               \* number of AksharamukhaClass.new() that returned
    fetches,                \* number of document.head.appendChild(script)
    \* ---- one record per caller of the async engine
    callers,
    \* ---- the direct-entry page (CreateInvoiceDirectPage)
    invoiceData,            \* the numeric fields of invoiceData
    amountInWords,          \* the last amount spelled out and its split
    \* ---- the invoice preview (InvoicePreview)
    tax,                    \* the tax derivation of the last render
    display,                \* the last amount formatted for display
    digitText,              \* the last text given to the digit utilities
    phonetic,               \* the last word given to phoneticTransliterate
    \* ---- the reports page (ReportsPage)
    reports,                \* its state, the browser's time zone and the
                            \* last thing generateExcelReport did
    \* ---- the home page (HomePage) and its Login component
    session,                \* localStorage, auth, the clock and the timers
    \* ---- saving an invoice
    exporter,               \* the direct-entry page's export-and-save runs
                            \* and the styles of the preview's elements
    upload,                 \* the Excel page (CreateInvoicePage)
    backend,                \* the invoice numbers the backend has stored
    route,                  \* the page the browser shows
    \* ---- the text fields of the direct-entry page (EditableSpan)
    editor,                 \* the stored texts and the blurs in flight
    \* ---- the invoice last saved from the direct-entry page
    savedInvoice            \* as the backend returns it, with its net balance

vars == <<hasWindow, winAksharamukha, scriptEl, Aksharamukha,
          isLoadingAksharamukha, loadPromise, loadState, aksharamukhaInstance,
          newCalls, fetches, callers, invoiceData, amountInWords, tax,
          display, digitText, phonetic, reports, session, exporter, upload,
          backend, route, editor, savedInvoice>>

loaderVars == <<hasWindow, winAksharamukha, scriptEl, Aksharamukha,
                isLoadingAksharamukha, loadPromise, loadState,
                aksharamukhaInstance, newCalls, fetches, callers>>

pageVars == <<invoiceData, amountInWords>>

previewVars == <<tax>>

displayVars == <<display, digitText, phonetic>>

reportVars == <<reports>>

sessionVars == <<session>>

\* the home page's session and the flows of the direct-entry page
saveVars == <<exporter, upload, backend, route>>

editVars == <<editor>>

savedVars == <<savedInvoice>>

flowVars == <<sessionVars, saveVars, editVars, savedVars>>

\* the pure parts of the pages
baseVars == <<pageVars, previewVars, displayVars, reportVars>>

\* what the loader and the engine never touch
appVars == <<baseVars, flowVars>>

\* what the home page never touches
sessionFrame == <<loaderVars, baseVars, saveVars, editVars, savedVars>>

\* what saving an invoice never touches
saveFrame == <<loaderVars, baseVars, sessionVars, editVars, savedVars>>

\* what a blur of a text field never touches
editFrame == <<loaderVars, baseVars, sessionVars, saveVars, savedVars>>

(***************************************************************************)
(* Bounds of the model.                                                    *)
(***************************************************************************)
NumCallers == 2

Callers == 1..NumCallers
\* a load is started by a caller, so there are at most NumCallers loads
Loads == 1..NumCallers

(***************************************************************************)
(* Characters.                                                             *)
(***************************************************************************)
AsciiDigits == {"0", "1", "2", "3", "4", "5", "6", "7", "8", "9"}

DevanagariDigits == {"U0966", "U0967", "U0968", "U0969", "U096A",
                     "U096B", "U096C", "U096D", "U096E", "U096F"}

\* the Devanagari letters and signs that occur in the model
DevanagariLetters == {"U0902", "U0905", "U0908", "U0915", "U0926", "U092C",
                      "U092D", "U092E", "U0930", "U0932", "U0938", "U093E",
                      "U093F", "U0940", "U0941", "U094D"}

\* the class [U+0900-U+097F]
IsDevanagariChar(ch) == ch \in DevanagariLetters \cup DevanagariDigits

\* the class \s and the class [.,;:!?\-_()\[\]{}'"]
IsSpaceChar(ch) == ch = " "
IsPunctChar(ch) == ch \in {".", ",", ";", ":", "!", "?", "-", "_", "(", ")",
                           "[", "]", "{", "}", "'"}

UpperToLower == [ch \in {"M", "U", "B", "A", "I", "D", "E", "L", "H", "S",
                         "K", "R"} |->
                 CASE ch = "M" -> "m" [] ch = "U" -> "u" [] ch = "B" -> "b"
                   [] ch = "A" -> "a" [] ch = "I" -> "i" [] ch = "D" -> "d"
                   [] ch = "E" -> "e" [] ch = "L" -> "l" [] ch = "H" -> "h"
                   [] ch = "S" -> "s" [] ch = "K" -> "k" [] ch = "R" -> "r"]

RECURSIVE toLowerCase(_)
\* String.prototype.toLowerCase; the capital I with a dot above, U+0130,
\* becomes the two code units i and U+0307
toLowerCase(text) ==
    IF text = <<>> THEN <<>>
    ELSE (IF Head(text) \in DOMAIN UpperToLower
          THEN <<UpperToLower[Head(text)]>>
          ELSE IF Head(text) = "U0130" THEN <<"i", "U0307">>
          ELSE <<Head(text)>>)
         \o toLowerCase(Tail(text))

(***************************************************************************)
(* marathiTransliteration.ts: isMarathi and the digit mapper.              *)
(***************************************************************************)
\* /[U+0900-U+097F]/.test(text)
isMarathi(text) == \E i \in 1..Len(text) : IsDevanagariChar(text[i])

marathiDigits == [d \in AsciiDigits |->
    CASE d = "0" -> "U0966" [] d = "1" -> "U0967" [] d = "2" -> "U0968"
      [] d = "3" -> "U0969" [] d = "4" -> "U096A" [] d = "5" -> "U096B"
      [] d = "6" -> "U096C" [] d = "7" -> "U096D" [] d = "8" -> "U096E"
      [] d = "9" -> "U096F"]

\* text.replace(/\d/g, digit => marathiDigits[digit] || digit)
convertNumbersToMarathi(text) ==
    [i \in 1..Len(text) |->
        IF text[i] \in AsciiDigits THEN marathiDigits[text[i]] ELSE text[i]]

(***************************************************************************)
(* transliterate.ts: the correction dictionary and the text helpers.       *)
(***************************************************************************)
Mumbai == <<"U092E", "U0941", "U0902", "U092C", "U0908">>
Delhi == <<"U0926", "U093F", "U0932", "U094D", "U0932", "U0940">>
Bhaskar == <<"U092D", "U093E", "U0938", "U094D", "U0915", "U0930">>

DictionaryKeys ==
    {<<"m", "u", "m", "b", "a", "i">>, <<"M", "u", "m", "b", "a", "i">>,
     <<"M", "U", "M", "B", "A", "I">>,
     <<"d", "e", "l", "h", "i">>, <<"D", "e", "l", "h", "i">>,
     <<"D", "E", "L", "H", "I">>,
     <<"b", "h", "a", "s", "k", "a", "r">>,
     <<"B", "h", "a", "s", "k", "a", "r">>,
     <<"B", "H", "A", "S", "K", "A", "R">>}

CORRECTION_DICTIONARY ==
    [k \in DictionaryKeys |->
        CASE toLowerCase(k) = <<"m", "u", "m", "b", "a", "i">> -> Mumbai
          [] toLowerCase(k) = <<"d", "e", "l", "h", "i">> -> Delhi
          [] OTHER -> Bhaskar]

\* CORRECTION_DICTIONARY[lowerWord] || CORRECTION_DICTIONARY[word]
InDictionary(word) ==
    toLowerCase(word) \in DictionaryKeys \/ word \in DictionaryKeys

DictionaryValue(word) ==
    IF toLowerCase(word) \in DictionaryKeys
    THEN CORRECTION_DICTIONARY[toLowerCase(word)]
    ELSE CORRECTION_DICTIONARY[word]

\* preprocessWordForAksharamukha
preprocessWordForAksharamukha(word) == toLowerCase(word)

\* preprocessTextForTransliteration
preprocessTextForTransliteration(text) == text

\* the number of characters of [U+0900-U+097F] in a string
RECURSIVE marathiChars(_)
marathiChars(text) ==
    IF text = <<>> THEN 0
    ELSE (IF IsDevanagariChar(Head(text)) THEN 1 ELSE 0)
         + marathiChars(Tail(text))

\* text.split(/(\s+|[.,;:!?\-_()\[\]{}'"])/): the pieces between the
\* separators and the separators themselves, in order
RECURSIVE SplitFrom(_, _, _, _)
SplitFrom(text, i, cur, acc) ==
    IF i > Len(text) THEN Append(acc, cur)
    ELSE IF IsPunctChar(text[i])
         THEN SplitFrom(text, i + 1, <<>>, acc \o <<cur, <<text[i]>>>>)
    ELSE IF IsSpaceChar(text[i])
         THEN LET RECURSIVE RunEnd(_)
                  RunEnd(j) == IF j <= Len(text) /\ IsSpaceChar(text[j])
                               THEN RunEnd(j + 1) ELSE j
                  e == RunEnd(i)
              IN SplitFrom(text, e, <<>>,
                           acc \o <<cur, SubSeq(text, i, e - 1)>>)
    ELSE SplitFrom(text, i + 1, Append(cur, text[i]), acc)

SplitWords(text) == SplitFrom(text, 1, <<>>, <<>>)

\* transliteratedWords.join('')
RECURSIVE Join(_)
Join(words) == IF words = <<>> THEN <<>> ELSE Head(words) \o Join(Tail(words))

\* /^\s*$/.test(word) || /^[.,;:!?\-_()\[\]{}'"]+$/.test(word)
IsSeparator(word) ==
    \/ \A i \in 1..Len(word) : IsSpaceChar(word[i])
    \/ word # <<>> /\ \A i \in 1..Len(word) : IsPunctChar(word[i])

\* /^\d+$/.test(word.trim())
IsPureNumber(word) ==
    word # <<>> /\ \A i \in 1..Len(word) : word[i] \in AsciiDigits

\* the word mapper of transliterateToMarathiAsync returns the token itself
SkipsWord(word) == IsSeparator(word) \/ isMarathi(word) \/ IsPureNumber(word)

(***************************************************************************)
(* The synchronous head of each entry point: either the call returns       *)
(* before it reaches getAksharamukhaInstance (Ret), or it reaches it with  *)
(* the text that transliterateToMarathiAsync was given (Pend).             *)
(***************************************************************************)
Ret(value) == [returned |-> TRUE, value |-> value]
Pend(value) == [returned |-> FALSE, value |-> value]

\* a || b on strings
OrElse(a, b) == IF a = <<>> THEN b ELSE a

\* transliterateToMarathiAsync, up to the await of getAksharamukhaInstance
transliterateToMarathiAsyncHead(text) ==
    IF text = <<>> THEN Ret(text)
    ELSE IF isMarathi(text) THEN Ret(text)
    ELSE IF ~hasWindow THEN Ret(text)
    ELSE Pend(text)

transliterateEnglishToMarathi(text) ==
    IF text = <<>> THEN Ret(text)
    ELSE IF isMarathi(text) THEN Ret(text)
    ELSE transliterateToMarathiAsyncHead(text)

transliterateTextAsync(text) ==
    IF text = <<>> THEN Ret(text)
    ELSE IF isMarathi(text) THEN Ret(text)
    ELSE LET result == convertNumbersToMarathi(text)
             r == transliterateEnglishToMarathi(result)
         IN IF r.returned THEN Ret(OrElse(r.value, result)) ELSE r

convertToMarathiAsync(str) ==
    IF isMarathi(str) THEN Ret(convertNumbersToMarathi(str))
    ELSE transliterateTextAsync(str)

convertInputToMarathiAsync(text) ==
    IF text = <<>> THEN Ret(text) ELSE transliterateTextAsync(text)

Entries == {"convertToMarathiAsync", "convertInputToMarathiAsync",
            "transliterateToMarathiAsync"}

\* a direct call of getAksharamukhaInstance has no text and no head
EntryHead(entry, text) ==
    CASE entry = "convertToMarathiAsync" -> convertToMarathiAsync(text)
      [] entry = "convertInputToMarathiAsync" ->
            convertInputToMarathiAsync(text)
      [] entry = "transliterateToMarathiAsync" ->
            transliterateToMarathiAsyncHead(text)
      [] OTHER -> Pend(text)

\* what the entry point returns once transliterateToMarathiAsync has
\* resolved with `transliterated`: transliterateTextAsync returns
\* transliterated || result
EntryReturn(entry, text, transliterated) ==
    IF entry = "transliterateToMarathiAsync" THEN transliterated
    ELSE OrElse(transliterated, convertNumbersToMarathi(text))

(***************************************************************************)
(* The texts the callers pass in.                                          *)
(***************************************************************************)
Inputs ==
    {<<>>,                               \* ""
     <<"M", "u", "m", "b", "a", "i">>,   \* a dictionary word
     <<"a", "b">>,                       \* a Latin word
     <<"a", " ", "b">>,                  \* two Latin words
     <<"a", "b", " ", "1">>,             \* a Latin word and a number
     <<"U092E", " ", "1">>}              \* Devanagari text and a number

(***************************************************************************)
(* What aksharamukha.processAsync can do with one request: throw, return   *)
(* an empty result, return its input, or return Devanagari text.           *)
(***************************************************************************)
Outcomes == {"throw", "empty", "echo", "short", "long"}

ProcessResult(outcome, input) ==
    CASE outcome = "empty" -> <<>>
      [] outcome = "echo" -> input
      [] outcome = "short" -> <<"U0905">>
      [] OTHER -> <<"U0905", "U092C">>

\* result && result !== preprocessed && /[U+0900-U+097F]/.test(result)
Accepted(outcome, input) ==
    /\ outcome # "throw"
    /\ ProcessResult(outcome, input) # <<>>
    /\ ProcessResult(outcome, input) # input
    /\ isMarathi(ProcessResult(outcome, input))

\* the attempts of transliterateWord, in order: their nativize option
NumAttempts == 7
Nativize(k) == k <= 4

(***************************************************************************)
(* Callers of the async engine.                                            *)
(***************************************************************************)
IdleCaller ==
    [pc |-> "idle", entry |-> "none", text |-> <<>>, load |-> 0, inst |-> 0,
     words |-> <<>>, idx |-> 0, k |-> 0, best |-> <<>>, out |-> <<>>,
     asked |-> FALSE]

\* the text transliterateToMarathiAsync was called with
Arg(r) == EntryHead(r.entry, r.text).value

\* the call of caller record r has resolved with out
Done(r, out) ==
    [IdleCaller EXCEPT !.pc = "done", !.entry = r.entry, !.text = r.text,
                       !.inst = r.inst, !.asked = r.asked, !.out = out]

\* transliterateToMarathiAsync resolves with `transliterated`
Finished(r, transliterated) ==
    Done(r, EntryReturn(r.entry, r.text, transliterated))

(***************************************************************************)
(* loadAksharamukhaScript: the executor of the promise.  The state of a    *)
(* load says what its script promise waits for:                            *)
(*   scriptWait      the new script's onload / onerror                     *)
(*   timer100        the setTimeout(.., 100) armed by onload               *)
(*   timer500        the setTimeout(.., 500) armed by the first timer      *)
(*   existingWait    the setInterval(.., 100) and the listeners put on a   *)
(*                   script element that was already in the document       *)
(*   scriptResolved  resolved: the load's async body is to resume          *)
(*   scriptRejected  rejected: the load's catch block is to run            *)
(* and "class" / "null" is what the load promise itself resolved with.     *)
(***************************************************************************)
Pending == {"scriptWait", "timer100", "timer500", "existingWait",
            "scriptResolved", "scriptRejected"}

loadAksharamukhaScript ==
    IF winAksharamukha THEN "scriptResolved"
    ELSE IF scriptEl # "absent" THEN "existingWait"
    ELSE "scriptWait"

\* a loadAksharamukha that does not look at loadPromise
LoadInFlightIgnored == FALSE

\* loadAksharamukha: if (loadPromise) return loadPromise
LoadInFlight == loadPromise # 0

FreeLoad == CHOOSE l \in Loads :
                /\ loadState[l] = "unused"
                /\ \A m \in Loads : m < l => loadState[m] # "unused"

\* loadAksharamukha: "Start loading"
StartLoad(l) ==
    /\ isLoadingAksharamukha' = TRUE
    /\ loadPromise' = l
    /\ loadState' = [loadState EXCEPT ![l] = loadAksharamukhaScript]
    /\ IF loadAksharamukhaScript = "scriptWait"
       THEN scriptEl' = "fetching" /\ fetches' = fetches + 1
       ELSE UNCHANGED <<scriptEl, fetches>>
    /\ UNCHANGED <<hasWindow, winAksharamukha, Aksharamukha,
                   aksharamukhaInstance, newCalls>>

\* an entry point is called: everything up to its first suspension
Call(c, entry, text) ==
    /\ callers[c].pc = "idle"
    /\ UNCHANGED appVars
    /\ LET h == EntryHead(entry, text)
           r == [IdleCaller EXCEPT !.entry = entry, !.text = text]
       IN IF h.returned
          THEN /\ callers' = [callers EXCEPT ![c] = Done(r, h.value)]
               /\ UNCHANGED <<hasWindow, winAksharamukha, scriptEl,
                              Aksharamukha, isLoadingAksharamukha,
                              loadPromise, loadState, aksharamukhaInstance,
                              newCalls, fetches>>
          \* getAksharamukhaInstance
          ELSE IF aksharamukhaInstance # 0
          THEN /\ callers' = [callers EXCEPT ![c] =
                     [r EXCEPT !.pc = "gotInstance",
                               !.inst = aksharamukhaInstance]]
               /\ UNCHANGED <<hasWindow, winAksharamukha, scriptEl,
                              Aksharamukha, isLoadingAksharamukha,
                              loadPromise, loadState, aksharamukhaInstance,
                              newCalls, fetches>>
          \* loadAksharamukha: without a window it returns null, and
          \* getAksharamukhaInstance returns aksharamukhaInstance
          ELSE IF ~hasWindow
          THEN /\ callers' = [callers EXCEPT ![c] =
                     [r EXCEPT !.pc = "gotInstance",
                               !.inst = aksharamukhaInstance]]
               /\ UNCHANGED <<hasWindow, winAksharamukha, scriptEl,
                              Aksharamukha, isLoadingAksharamukha,
                              loadPromise, loadState, aksharamukhaInstance,
                              newCalls, fetches>>
          ELSE IF LoadInFlight
          THEN /\ callers' = [callers EXCEPT ![c] =
                     [r EXCEPT !.pc = "awaitLoad", !.load = loadPromise]]
               /\ UNCHANGED <<hasWindow, winAksharamukha, scriptEl,
                              Aksharamukha, isLoadingAksharamukha,
                              loadPromise, loadState, aksharamukhaInstance,
                              newCalls, fetches>>
          ELSE IF Aksharamukha
          THEN /\ callers' = [callers EXCEPT ![c] =
                     [r EXCEPT !.pc = "awaitNew"]]
               /\ UNCHANGED <<hasWindow, winAksharamukha, scriptEl,
                              Aksharamukha, isLoadingAksharamukha,
                              loadPromise, loadState, aksharamukhaInstance,
                              newCalls, fetches>>
          ELSE /\ callers' = [callers EXCEPT ![c] =
                     [r EXCEPT !.pc = "awaitLoad", !.load = FreeLoad]]
               /\ StartLoad(FreeLoad)

(***************************************************************************)
(* The browser: the script's load and error events, the global that the    *)
(* script defines (with the event or later), the timers.                   *)
(***************************************************************************)
\* the load event: script.onload arms the 100 ms timer; the 'load'
\* listener put on an existing script clears the interval and resolves
ScriptLoad(defines) ==
    /\ scriptEl = "fetching"
    /\ scriptEl' = "loaded"
    /\ winAksharamukha' = (winAksharamukha \/ defines)
    /\ loadState' = [l \in Loads |->
          CASE loadState[l] = "scriptWait" -> "timer100"
            [] loadState[l] = "existingWait" -> "scriptResolved"
            [] OTHER -> loadState[l]]
    /\ UNCHANGED <<hasWindow, Aksharamukha, isLoadingAksharamukha,
                   loadPromise, aksharamukhaInstance, newCalls, fetches,
                   callers>>
    /\ UNCHANGED appVars

\* the error event: script.onerror and the 'error' listener reject
ScriptError ==
    /\ scriptEl = "fetching"
    /\ scriptEl' = "errored"
    /\ loadState' = [l \in Loads |->
          IF loadState[l] \in {"scriptWait", "existingWait"}
          THEN "scriptRejected" ELSE loadState[l]]
    /\ UNCHANGED <<hasWindow, winAksharamukha, Aksharamukha,
                   isLoadingAksharamukha, loadPromise, aksharamukhaInstance,
                   newCalls, fetches, callers>>
    /\ UNCHANGED appVars

\* a script that ran defines window.Aksharamukha only after its load event
GlobalAppears ==
    /\ scriptEl = "loaded"
    /\ ~winAksharamukha
    /\ winAksharamukha' = TRUE
    /\ UNCHANGED <<hasWindow, scriptEl, Aksharamukha, isLoadingAksharamukha,
                   loadPromise, loadState, aksharamukhaInstance, newCalls,
                   fetches, callers>>
    /\ UNCHANGED appVars

\* setTimeout(() => { if (window.Aksharamukha) resolve() else ... }, 100)
Timer100(l) ==
    /\ loadState[l] = "timer100"
    /\ loadState' = [loadState EXCEPT ![l] =
          IF winAksharamukha THEN "scriptResolved" ELSE "timer500"]
    /\ UNCHANGED <<hasWindow, winAksharamukha, scriptEl, Aksharamukha,
                   isLoadingAksharamukha, loadPromise, aksharamukhaInstance,
                   newCalls, fetches, callers>>
    /\ UNCHANGED appVars

\* setTimeout(() => { if (window.Aksharamukha) resolve() else reject() }, 500)
Timer500(l) ==
    /\ loadState[l] = "timer500"
    /\ loadState' = [loadState EXCEPT ![l] =
          IF winAksharamukha THEN "scriptResolved" ELSE "scriptRejected"]
    /\ UNCHANGED <<hasWindow, winAksharamukha, scriptEl, Aksharamukha,
                   isLoadingAksharamukha, loadPromise, aksharamukhaInstance,
                   newCalls, fetches, callers>>
    /\ UNCHANGED appVars

\* setInterval(() => { if (window.Aksharamukha) { clearInterval; resolve } },
\* 100); a tick that finds no global changes nothing
IntervalTick(l) ==
    /\ loadState[l] = "existingWait"
    /\ winAksharamukha
    /\ loadState' = [loadState EXCEPT ![l] = "scriptResolved"]
    /\ UNCHANGED <<hasWindow, winAksharamukha, scriptEl, Aksharamukha,
                   isLoadingAksharamukha, loadPromise, aksharamukhaInstance,
                   newCalls, fetches, callers>>
    /\ UNCHANGED appVars

\* loadAksharamukha: the async body after `await loadAksharamukhaScript()`
LoadResume(l) ==
    /\ loadState[l] \in {"scriptResolved", "scriptRejected"}
    /\ IF loadState[l] = "scriptResolved" /\ hasWindow /\ winAksharamukha
       THEN /\ Aksharamukha' = TRUE
            /\ isLoadingAksharamukha' = FALSE
            /\ loadState' = [loadState EXCEPT ![l] = "class"]
            /\ UNCHANGED loadPromise
       ELSE /\ isLoadingAksharamukha' = FALSE
            /\ loadPromise' = 0
            /\ loadState' = [loadState EXCEPT ![l] = "null"]
            /\ UNCHANGED Aksharamukha
    /\ UNCHANGED <<hasWindow, winAksharamukha, scriptEl,
                   aksharamukhaInstance, newCalls, fetches, callers>>
    /\ UNCHANGED appVars

(***************************************************************************)
(* getAksharamukhaInstance, after its awaits.                              *)
(***************************************************************************)
LoaderGlobals == <<hasWindow, winAksharamukha, scriptEl, Aksharamukha,
                   isLoadingAksharamukha, loadPromise, loadState, fetches>>

\* `await loadAksharamukha()` resumes: with the class, new() is called;
\* with null the function returns the module's aksharamukhaInstance
LoadReturns(c) ==
    /\ callers[c].pc = "awaitLoad"
    /\ loadState[callers[c].load] \in {"class", "null"}
    /\ callers' = [callers EXCEPT ![c] =
          IF loadState[callers[c].load] = "class"
          THEN [@ EXCEPT !.pc = "awaitNew"]
          ELSE [@ EXCEPT !.pc = "gotInstance",
                         !.inst = aksharamukhaInstance]]
    /\ UNCHANGED <<aksharamukhaInstance, newCalls>>
    /\ UNCHANGED LoaderGlobals
    /\ UNCHANGED appVars

\* `aksharamukhaInstance = await AksharamukhaClass.new()` resumes with a new
\* instance, or new() throws and the catch block returns null
NewReturns(c, ok) ==
    /\ callers[c].pc = "awaitNew"
    /\ IF ok
       THEN /\ newCalls' = newCalls + 1
            /\ aksharamukhaInstance' = newCalls + 1
            /\ callers' = [callers EXCEPT ![c] =
                  [@ EXCEPT !.pc = "gotInstance", !.inst = newCalls + 1]]
       ELSE /\ callers' = [callers EXCEPT ![c] =
                  [@ EXCEPT !.pc = "gotInstance", !.inst = 0]]
            /\ UNCHANGED <<aksharamukhaInstance, newCalls>>
    /\ UNCHANGED LoaderGlobals
    /\ UNCHANGED appVars

(***************************************************************************)
(* transliterateToMarathiAsync, after `await getAksharamukhaInstance()`.   *)
(***************************************************************************)
\* transliterateWord, before its first processAsync
WordNeedsBackend(word) == ~SkipsWord(word) /\ ~InDictionary(word)

\* the tokens that resolve without a processAsync call
ImmediateWords(tokens) ==
    [i \in 1..Len(tokens) |->
        IF SkipsWord(tokens[i]) THEN tokens[i]
        ELSE IF InDictionary(tokens[i]) THEN DictionaryValue(tokens[i])
        ELSE tokens[i]]

\* the first token at or after position from that waits for processAsync
NextPending(tokens, from) ==
    LET S == {j \in from..Len(tokens) : WordNeedsBackend(tokens[j])}
    IN IF S = {} THEN 0 ELSE CHOOSE j \in S : \A m \in S : j <= m

\* getAksharamukhaInstance has returned.  In transliterateToMarathiAsync:
\* if (!aksharamukha) return text; else the whole phrase is tried first
GotInstance(c) ==
    /\ callers[c].pc = "gotInstance"
    /\ callers' = [callers EXCEPT ![c] =
          IF callers[c].entry = "getAksharamukhaInstance"
          THEN Done(callers[c], <<>>)
          ELSE IF callers[c].inst = 0
          THEN Finished(callers[c], Arg(callers[c]))
          ELSE [@ EXCEPT !.pc = "wholePhrase", !.asked = TRUE]]
    /\ UNCHANGED <<aksharamukhaInstance, newCalls>>
    /\ UNCHANGED LoaderGlobals
    /\ UNCHANGED appVars

\* processAsync('IAST', 'Devanagari', preprocessed.toLowerCase(),
\* {nativize: true}) settles; a rejected result leads to the word loop.
\* The mappers of Promise.all share no state, so the tokens are taken in
\* order.
WholePhrase(c, outcome) ==
    /\ callers[c].pc = "wholePhrase"
    /\ LET r == callers[c]
           input == toLowerCase(preprocessTextForTransliteration(Arg(r)))
           tokens == SplitWords(preprocessTextForTransliteration(Arg(r)))
           first == NextPending(tokens, 1)
       IN callers' = [callers EXCEPT ![c] =
            IF Accepted(outcome, input)
            THEN Finished(r, ProcessResult(outcome, input))
            ELSE IF first = 0
            THEN Finished(r, Join(ImmediateWords(tokens)))
            ELSE [r EXCEPT !.pc = "word", !.words = ImmediateWords(tokens),
                           !.idx = first, !.k = 1, !.best = tokens[first]]]
    /\ UNCHANGED <<aksharamukhaInstance, newCalls>>
    /\ UNCHANGED LoaderGlobals
    /\ UNCHANGED appVars

\* transliterateWord: attempt k of the word at idx settles
WordAttempt(c, outcome) ==
    /\ callers[c].pc = "word"
    /\ LET r == callers[c]
           tokens == SplitWords(preprocessTextForTransliteration(Arg(r)))
           word == tokens[r.idx]
           preprocessed == preprocessWordForAksharamukha(word)
           result == ProcessResult(outcome, preprocessed)
           ok == Accepted(outcome, preprocessed)
           better == ok /\ (marathiChars(result) > marathiChars(r.best)
                            \/ r.best = word)
           best == IF better THEN result ELSE r.best
           break == ok /\ Nativize(r.k) /\ marathiChars(result) > 0
           words == [r.words EXCEPT ![r.idx] = best]
           next == NextPending(tokens, r.idx + 1)
       IN callers' = [callers EXCEPT ![c] =
            IF ~break /\ r.k < NumAttempts
            THEN [r EXCEPT !.k = r.k + 1, !.best = best]
            ELSE IF next = 0
            THEN Finished(r, Join(words))
            ELSE [r EXCEPT !.words = words, !.idx = next, !.k = 1,
                           !.best = tokens[next]]]
    /\ UNCHANGED <<aksharamukhaInstance, newCalls>>
    /\ UNCHANGED LoaderGlobals
    /\ UNCHANGED appVars

(***************************************************************************)
(* Numbers.  A JavaScript number is modelled by the integer count of its   *)
(* thousandths, so 1 is Unit and 0.5 is Unit \div 2; the texts the model   *)
(* types have at most three fraction digits and no exponent.               *)
(***************************************************************************)
Unit == 10 ^ 3

Abs(x) == IF x < 0 THEN -x ELSE x

\* Math.floor(x)
MathFloor(x) == (x \div Unit) * Unit

\* Math.floor(x / n), n a positive whole number
MathFloorDiv(x, n) == (x \div (n * Unit)) * Unit

\* Math.round of the number num / scale: the nearest whole number, a tie
\* going up
MathRoundRatio(num, scale) == ((2 * num + scale) \div (2 * scale)) * Unit

\* Math.round(x)
MathRound(x) == MathRoundRatio(x, Unit)

\* a number given by its floor and the thousandths above it, so that amounts
\* around the limit of numberToWords fit the integers of the model
Split(x) == [floor |-> x \div Unit, above |-> x % Unit]

\* if (num > 999999999) return "Amount too large"
WordsLimit == 999999999

\* the product of two numbers, times 100, is the product of their
\* thousandths over PaiseScale
PaiseScale == (Unit * Unit) \div 100

\* x % n of JavaScript, n a positive whole number: the remainder has the sign
\* of the dividend
JSRem(x, n) ==
    IF x >= 0 THEN x % (n * Unit) ELSE -((-x) % (n * Unit))

DigitValue == [d \in AsciiDigits |->
    CASE d = "0" -> 0 [] d = "1" -> 1 [] d = "2" -> 2 [] d = "3" -> 3
      [] d = "4" -> 4 [] d = "5" -> 5 [] d = "6" -> 6 [] d = "7" -> 7
      [] d = "8" -> 8 [] d = "9" -> 9]

DigitChar == [n \in 0..9 |-> CHOOSE d \in AsciiDigits : DigitValue[d] = n]

RECURSIVE NatToString(_)
NatToString(n) ==
    IF n < 10 THEN <<DigitChar[n]>>
    ELSE Append(NatToString(n \div 10), DigitChar[n % 10])

\* Number.prototype.toString: no fraction for a whole number, else the
\* fraction digits without trailing zeros
NumberToString(x) ==
    LET frac == Abs(x) % Unit
        d1 == DigitChar[frac \div 100]
        d2 == DigitChar[(frac \div 10) % 10]
        d3 == DigitChar[frac % 10]
    IN  (IF x < 0 THEN <<"-">> ELSE <<>>)
        \o NatToString(Abs(x) \div Unit)
        \o (IF frac = 0 THEN <<>>
            ELSE IF d3 # "0" THEN <<".", d1, d2, d3>>
            ELSE IF d2 # "0" THEN <<".", d1, d2>>
            ELSE <<".", d1>>)

RECURSIVE DigitRun(_, _)
\* the position after the run of ASCII digits that starts at position i
DigitRun(text, i) ==
    IF i <= Len(text) /\ text[i] \in AsciiDigits
    THEN DigitRun(text, i + 1) ELSE i

RECURSIVE DigitsToNat(_, _, _)
\* the value of the digits text[i..j-1]
DigitsToNat(text, i, j) ==
    IF i >= j THEN 0
    ELSE DigitsToNat(text, i, j - 1) * 10 + DigitValue[text[j - 1]]

\* the first three fraction digits text[i..j-1] as thousandths
FractionToThousandths(text, i, j) ==
    LET digit(k) == IF i + k < j THEN DigitValue[text[i + k]] ELSE 0
    IN  digit(0) * 100 + digit(1) * 10 + digit(2)

RECURSIVE SkipSpaces(_, _)
SkipSpaces(text, i) ==
    IF i <= Len(text) /\ IsSpaceChar(text[i])
    THEN SkipSpaces(text, i + 1) ELSE i

\* parseFloat: leading white space, a sign, digits, a point and digits; the
\* longest such prefix is the number, and without any digit it is NaN
parseFloat(text) ==
    LET s == SkipSpaces(text, 1)
        signed == s <= Len(text) /\ text[s] \in {"+", "-"}
        i0 == IF signed THEN s + 1 ELSE s
        i1 == DigitRun(text, i0)
        hasPoint == i1 <= Len(text) /\ text[i1] = "."
        f1 == IF hasPoint THEN DigitRun(text, i1 + 1) ELSE i1 + 1
        magnitude == DigitsToNat(text, i0, i1) * Unit
                     + (IF hasPoint
                        THEN FractionToThousandths(text, i1 + 1, f1) ELSE 0)
    IN  IF i1 = i0 /\ (~hasPoint \/ f1 = i1 + 1)
        THEN [nan |-> TRUE, val |-> 0]
        ELSE [nan |-> FALSE,
              val |-> IF signed /\ text[s] = "-" THEN -magnitude
                      ELSE magnitude]

RECURSIVE TrimEnd(_)
TrimEnd(text) ==
    IF text # <<>> /\ IsSpaceChar(text[Len(text)])
    THEN TrimEnd(SubSeq(text, 1, Len(text) - 1)) ELSE text

\* String.prototype.trim
trim(text) ==
    LET t == TrimEnd(text) IN SubSeq(t, SkipSpaces(t, 1), Len(t))

(***************************************************************************)
(* marathiDigits.ts                                                        *)
(***************************************************************************)
MARATHI_TO_ENGLISH == [m \in DevanagariDigits |->
    CASE m = "U0966" -> "0" [] m = "U0967" -> "1" [] m = "U0968" -> "2"
      [] m = "U0969" -> "3" [] m = "U096A" -> "4" [] m = "U096B" -> "5"
      [] m = "U096C" -> "6" [] m = "U096D" -> "7" [] m = "U096E" -> "8"
      [] m = "U096F" -> "9"]

marathiToEnglish(text) ==
    [i \in 1..Len(text) |->
        IF text[i] \in DevanagariDigits THEN MARATHI_TO_ENGLISH[text[i]]
        ELSE text[i]]

\* parseFloat(englishText.replace(/,/g, '')), NaN becoming 0
parseMarathiNumber(text) ==
    IF text = <<>> THEN 0
    ELSE LET englishText == marathiToEnglish(trim(text))
             parsed == parseFloat(SelectSeq(englishText,
                                            LAMBDA ch : ch # ","))
         IN  IF parsed.nan THEN 0 ELSE parsed.val

(***************************************************************************)
(* The direct-entry page (CreateInvoiceDirectPage): the numeric fields of  *)
(* invoiceData and the calculations made from them at every render.        *)
(* A field `row3_price` is the triple <<"row", 3, "price">>; a field that  *)
(* was never set and a field holding '' are both the empty text.           *)
(***************************************************************************)
GoodsRowCount == 13
ExpenseRowCount == 8
EmptyRowCount == 5

GoodsRows == 0..(GoodsRowCount - 1)
ExpenseRows == 0..(ExpenseRowCount - 1)
EmptyRows == 0..(EmptyRowCount - 1)

Fields ==
    ({"row"} \X GoodsRows \X {"item", "piece", "price"})
    \cup ({"expense"} \X ExpenseRows \X {"rs", "paise"})
    \cup ({"empty"} \X EmptyRows \X {"rs", "paise"})

\* the inputs the model types into: the first goods row, crates and price of
\* the last goods row, the first expense row and the last extra row
EditedFields ==
    ({"row"} \X {0} \X {"item", "piece", "price"})
    \cup ({"row"} \X {GoodsRowCount - 1} \X {"piece", "price"})
    \cup {<<"expense", 0, "amount">>, <<"empty", EmptyRowCount - 1, "amount">>}

\* the texts the model types: 5, -5 and '' for a quantity, 0.5 and 10 for a
\* price, 1.999, Devanagari 2.5 and ab for an amount
TypedTexts(field) ==
    CASE field[3] \in {"item", "piece"} -> {<<"5">>, <<"-", "5">>, <<>>}
      [] field[3] = "price" -> {<<"0", ".", "5">>, <<"1", "0">>}
      [] OTHER -> {<<"1", ".", "9", "9", "9">>, <<"U0968", ".", "5">>,
                   <<"a", "b">>}

\* the amounts spelled out in words: 1.999, 1234.50 and -1.25
Amounts ==
    {Split(Unit + 999), Split((1234 * Unit) + 500), Split(-Unit - 250)}

\* amounts of every size up to and around the limit of numberToWords, and
\* a negative one, with fractions from 0 to 0.999
LargeAmounts ==
    [floor : {-2, 0, 1, 19, 20, 120, 1000, 100000, 10000000, 990100019,
              WordsLimit - 1, WordsLimit, WordsLimit + 1, 2 * WordsLimit},
     above : {0, 5, 10, 250, 500, 994, 995, 999}]

\* invoiceData[field] || '0'
OrZero(text) == IF text = <<>> THEN <<"0">> ELSE text

\* marathiDigits.indexOf(char).toString(), marathiDigits being the string
\* of the ten Devanagari digits U+0966..U+096F
marathiDigitsIndexOf(ch) ==
    LET digits == <<"U0966", "U0967", "U0968", "U0969", "U096A",
                    "U096B", "U096C", "U096D", "U096E", "U096F">>
    IN  NatToString((CHOOSE i \in 1..Len(digits) : digits[i] = ch) - 1)[1]

parseDecimalAmount(amountStr) ==
    IF amountStr = <<>> \/ trim(amountStr) = <<>>
    THEN [rs |-> <<>>, paise |-> <<>>]
    ELSE LET englishStr ==
                 [i \in 1..Len(amountStr) |->
                     IF amountStr[i] \in DevanagariDigits
                     THEN marathiDigitsIndexOf(amountStr[i])
                     ELSE amountStr[i]]
             amount == parseFloat(SelectSeq(englishStr,
                           LAMBDA ch : ch \in AsciiDigits \cup {"."}))
         IN  IF amount.nan THEN [rs |-> <<>>, paise |-> <<>>]
             ELSE [rs |-> NumberToString(MathFloor(amount.val)),
                   paise |-> NumberToString(MathRound(
                       (amount.val - MathFloor(amount.val)) * 100))]

\* the next invoiceData of setInvoiceData
handleInputChange(field, value) ==
    IF field[1] \in {"expense", "empty"} /\ field[3] = "amount"
    THEN LET split == parseDecimalAmount(value)
         IN  [invoiceData EXCEPT ![<<field[1], field[2], "rs">>] = split.rs,
                                 ![<<field[1], field[2], "paise">>] =
                                      split.paise]
    ELSE [invoiceData EXCEPT ![field] = value]

\* a Rupee/Paise pair, or { rs: null, paise: null }
NullPair == [null |-> TRUE, rs |-> 0, paise |-> 0]
Pair(rs, paise) == [null |-> FALSE, rs |-> rs, paise |-> paise]

\* { rs: Math.floor(totalPaise / 100), paise: totalPaise % 100 }
PaisePair(totalPaise) ==
    Pair(MathFloorDiv(totalPaise, 100), JSRem(totalPaise, 100))

RECURSIVE SumEntries(_, _)
\* the loop over the rows 0..n-1 of the expense table
SumEntries(kind, n) ==
    IF n = 0 THEN 0
    ELSE LET rs == parseMarathiNumber(
                       OrZero(invoiceData[<<kind, n - 1, "rs">>]))
             paise == parseMarathiNumber(
                          OrZero(invoiceData[<<kind, n - 1, "paise">>]))
         IN  SumEntries(kind, n - 1) + (rs * 100) + paise

\* calculateTotalExpenses without its loop over the extra rows
calculateTotalExpensesExpenseRowsOnly ==
    PaisePair(SumEntries("expense", ExpenseRowCount))

calculateTotalExpenses ==
    PaisePair(SumEntries("expense", ExpenseRowCount)
              + SumEntries("empty", EmptyRowCount))

\* const quantity = piece > 0 ? piece : crates
QuantityOf(piece, crates) == IF piece > 0 THEN piece ELSE crates

\* the total of a row from its quantity and its price per unit
RowTotal(quantity, perUnitPrice) ==
    IF quantity = 0 \/ perUnitPrice = 0 THEN NullPair
    ELSE PaisePair(MathRoundRatio(quantity * perUnitPrice, PaiseScale))

calculateRowTotal(rowIndex) ==
    RowTotal(
        QuantityOf(
            parseMarathiNumber(
                OrZero(invoiceData[<<"row", rowIndex, "item">>])),
            parseMarathiNumber(
                OrZero(invoiceData[<<"row", rowIndex, "piece">>]))),
        parseMarathiNumber(
            OrZero(invoiceData[<<"row", rowIndex, "price">>])))

\* what a row adds to the total: nothing when its total is null
RowPaise(rowTotal) ==
    IF ~rowTotal.null THEN (rowTotal.rs * 100) + rowTotal.paise ELSE 0

RECURSIVE SumRowTotals(_)
\* the loop over the goods rows 0..n-1
SumRowTotals(n) ==
    IF n = 0 THEN 0
    ELSE SumRowTotals(n - 1) + RowPaise(calculateRowTotal(n - 1))

\* if (totalPaise === 0) return { rs: null, paise: null }
SalesPair(totalPaise) ==
    IF totalPaise = 0 THEN NullPair ELSE PaisePair(totalPaise)

calculateTotalSales == SalesPair(SumRowTotals(GoodsRowCount))

\* the balance of netPaise = salesPaise - expensesPaise
BalanceOf(netPaise) ==
    [null |-> FALSE,
     rs |-> MathFloorDiv(Abs(netPaise), 100),
     paise |-> JSRem(Abs(netPaise), 100),
     isNegative |-> netPaise < 0]

\* the net balance of the two totals, null when nothing was sold
NetBalanceOf(totalSales, totalExpenses) ==
    IF totalSales.null
    THEN [null |-> TRUE, rs |-> 0, paise |-> 0, isNegative |-> FALSE]
    ELSE BalanceOf(((totalSales.rs * 100) + totalSales.paise)
                   - ((totalExpenses.rs * 100) + totalExpenses.paise))

calculateNetBalance ==
    NetBalanceOf(calculateTotalSales, calculateTotalExpenses)

\* InvoicePreview.tsx, numberToWords and amountToWordsWithPaise.  A text of
\* words is the sequence of its words; a whole number is given as such, and
\* an amount by its floor and the thousandths above it (Split).

AmountTooLarge == <<"Amount", "too", "large">>

\* the words of a text: the empty text has none
Words(text) == IF text = "" THEN <<>> ELSE <<text>>

\* Math.floor((num / unit) % modulus) for a whole num: the remainder has the
\* sign of num, and the floor of a negative fraction is the whole number
\* below it
FloorOfRem(num, unit, modulus) ==
    IF num >= 0 THEN (num \div unit) % modulus
    ELSE -(((((-num) % (unit * modulus)) + unit) - 1) \div unit)

\* an index outside the arrays a and b reads undefined
numberToWords(num) ==
    LET a(n) ==
            IF n < 0 \/ n > 19 THEN "undefined"
            ELSE <<"", "One", "Two", "Three", "Four", "Five", "Six", "Seven",
                   "Eight", "Nine", "Ten", "Eleven", "Twelve", "Thirteen",
                   "Fourteen", "Fifteen", "Sixteen", "Seventeen", "Eighteen",
                   "Nineteen">>[n + 1]
        b(n) ==
            IF n < 0 \/ n > 9 THEN "undefined"
            ELSE <<"", "", "Twenty", "Thirty", "Forty", "Fifty", "Sixty",
                   "Seventy", "Eighty", "Ninety">>[n + 1]
        inWords(n) ==
            IF n > 19
            THEN Words(b(n \div 10))
                 \o (IF n % 10 # 0 THEN Words(a(n % 10)) ELSE <<>>)
            ELSE IF n > 0 THEN Words(a(n))
            ELSE <<>>
        crore == num \div 10000000
        lakh == FloorOfRem(num, 100000, 100)
        thousand == FloorOfRem(num, 1000, 100)
        hundred == FloorOfRem(num, 100, 10)
        rest == FloorOfRem(num, 1, 100)
        upper ==
            (IF crore # 0 THEN inWords(crore) \o <<"Crore">> ELSE <<>>)
            \o (IF lakh # 0 THEN inWords(lakh) \o <<"Lakh">> ELSE <<>>)
            \o (IF thousand # 0 THEN inWords(thousand) \o <<"Thousand">>
                ELSE <<>>)
            \o (IF hundred # 0 THEN Words(a(hundred)) \o <<"Hundred">>
                ELSE <<>>)
    IN  IF num = 0 THEN <<"Zero">>
        ELSE IF num > WordsLimit THEN AmountTooLarge
        ELSE upper
             \o (IF rest # 0
                 THEN (IF upper # <<>> THEN <<"and">> ELSE <<>>)
                      \o inWords(rest)
                 ELSE <<>>)

\* paise is kept in thousandths, like the other numbers of the page
amountToWordsWithPaise(amount) ==
    LET rupees == amount.floor
        paise == ((2 * amount.above * 100) + Unit) \div (2 * Unit)
        rupeeWords == numberToWords(rupees)
    IN  [amount |-> amount, rupees |-> rupees, paise |-> paise * Unit,
         words |->
             (IF rupeeWords # <<>> THEN rupeeWords \o <<"Rupees">> ELSE <<>>)
             \o (IF paise > 0
                 THEN <<"and">> \o numberToWords(paise) \o <<"Paise">>
                 ELSE <<>>)
             \o <<"only">>]

(***************************************************************************)
(* Formatting of amounts.  The amounts the model formats have no digit     *)
(* that lies exactly between two hundredths.                               *)
(***************************************************************************)
ENGLISH_TO_MARATHI == [d \in AsciiDigits |->
    CASE d = "0" -> "U0966" [] d = "1" -> "U0967" [] d = "2" -> "U0968"
      [] d = "3" -> "U0969" [] d = "4" -> "U096A" [] d = "5" -> "U096B"
      [] d = "6" -> "U096C" [] d = "7" -> "U096D" [] d = "8" -> "U096E"
      [] d = "9" -> "U096F"]

\* englishToMarathi with the thousands separators dropped
englishToMarathiWithoutCommas(text) ==
    LET kept == SelectSeq(text, LAMBDA ch : ch # ",")
    IN  [i \in 1..Len(kept) |->
            IF kept[i] \in AsciiDigits THEN ENGLISH_TO_MARATHI[kept[i]]
            ELSE kept[i]]

englishToMarathi(text) ==
    [i \in 1..Len(text) |->
        IF text[i] \in AsciiDigits THEN ENGLISH_TO_MARATHI[text[i]]
        ELSE text[i]]

\* the hundredths of |x|, rounded to the nearest
Hundredths(x) == (Abs(x) + (Unit \div 200)) \div (Unit \div 100)

\* the two fraction digits of a count of hundredths
FractionDigits(hundredths) ==
    <<".", DigitChar[(hundredths % 100) \div 10], DigitChar[hundredths % 10]>>

\* Number.prototype.toFixed(2)
toFixed2(x) ==
    (IF x < 0 THEN <<"-">> ELSE <<>>)
    \o NatToString(Hundredths(x) \div 100)
    \o FractionDigits(Hundredths(x))

RECURSIVE GroupPairs(_)
\* the digits above the thousands in groups of two
GroupPairs(digits) ==
    IF Len(digits) <= 2 THEN digits
    ELSE GroupPairs(SubSeq(digits, 1, Len(digits) - 2))
         \o <<",">> \o SubSeq(digits, Len(digits) - 1, Len(digits))

\* the Indian grouping of en-IN: the last three digits, then groups of two
GroupIndian(digits) ==
    IF Len(digits) <= 3 THEN digits
    ELSE GroupPairs(SubSeq(digits, 1, Len(digits) - 3))
         \o <<",">> \o SubSeq(digits, Len(digits) - 2, Len(digits))

\* toLocaleString('en-IN', { minimumFractionDigits: 2,
\*                           maximumFractionDigits: 2 })
toLocaleStringEnIN(x) ==
    (IF x < 0 THEN <<"-">> ELSE <<>>)
    \o GroupIndian(NatToString(Hundredths(x) \div 100))
    \o FractionDigits(Hundredths(x))

\* the page-level formatAmount(rs, paise, isNegative) of a pair
formatAmount(pair, isNegative) ==
    IF pair.null THEN <<>>
    ELSE LET \* ((rs * 100) + paise) / 100
             total == pair.rs + (pair.paise \div 100)
             amount == IF isNegative THEN -Abs(total) ELSE total
         IN  IF amount = 0 THEN <<>>
             ELSE englishToMarathi(toLocaleStringEnIN(amount))

\* the totals of the data prepared for the preview
prepareInvoiceDataForPreview ==
    [totalSalesFormatted |-> formatAmount(calculateTotalSales, FALSE),
     totalExpensesFormatted |-> formatAmount(calculateTotalExpenses, FALSE),
     netBalanceFormatted |->
         formatAmount(calculateNetBalance, calculateNetBalance.isNegative)]

\* `x ?? ''` of a pair's component: the number, or the empty text for null
OrBlank(isNull, x) == [blank |-> isNull, num |-> IF isNull THEN 0 ELSE x]

\* ((rs * 100 + paise) / 100).toFixed(2), or '' for the null pair
PairValue(pair) ==
    IF pair.null THEN <<>>
    ELSE toFixed2(((pair.rs * 100) + pair.paise) \div 100)

\* saveInvoice: the summary fields attached to the invoice before saving
EnrichedWith(totalSales, totalExpenses, netBalance) ==
        [totalSalesRs |-> OrBlank(totalSales.null, totalSales.rs),
         totalSalesPaise |-> OrBlank(totalSales.null, totalSales.paise),
         expensesRs |-> OrBlank(totalExpenses.null, totalExpenses.rs),
         expensesPaise |-> OrBlank(totalExpenses.null, totalExpenses.paise),
         netBalanceRs |-> OrBlank(netBalance.null, netBalance.rs),
         netBalancePaise |-> OrBlank(netBalance.null, netBalance.paise),
         grandTotalRs |-> OrBlank(netBalance.null, netBalance.rs),
         grandTotalPaise |-> OrBlank(netBalance.null, netBalance.paise),
         totalCollection |-> PairValue(totalSales),
         expensesTotal |-> PairValue(totalExpenses),
         netAmount |-> PairValue(netBalance),
         grandTotal |-> PairValue(netBalance)]

enrichedInvoiceData ==
    EnrichedWith(calculateTotalSales, calculateTotalExpenses,
                 calculateNetBalance)

\* EditableSpan.handleBlur on a numeric field, with the onChange it calls
HandleBlur(field, typed) ==
    /\ invoiceData' =
           handleInputChange(field, NumberToString(parseMarathiNumber(typed)))
    /\ UNCHANGED amountInWords
    /\ UNCHANGED <<loaderVars, previewVars, displayVars, reportVars, flowVars>>

\* a render that spells an amount out in words
AmountInWords(amount) ==
    /\ amountInWords' = amountToWordsWithPaise(amount)
    /\ UNCHANGED invoiceData
    /\ UNCHANGED <<loaderVars, previewVars, displayVars, reportVars, flowVars>>

PageInit ==
    /\ invoiceData = [f \in Fields |-> <<>>]
    /\ amountInWords = amountToWordsWithPaise(Split(0))

(***************************************************************************)
(* InvoicePreview.tsx: the tax derivation a render makes from the taxable  *)
(* amount, the GST rate and the GST type.  Rates are whole percentages.    *)
(***************************************************************************)
GstTypes == {"IGST", "CGST/SGST"}

\* the GST rates of the model, in percent: 0, 5, 12, 18 and 28
GstRates == {0, 5 * Unit, 12 * Unit, 18 * Unit, 28 * Unit}

\* the taxable amounts of the model: 0, 0.25, 0.5, 1.005, 12.345, 99.99,
\* 100.005, 333.33, 777.77, 1000, 1284.8 and -250
TaxableAmounts ==
    {0, 250, 500, 1005, 12345, 99990, 100005, 333330, 777770, 1000 * Unit,
     1284800, -250 * Unit}

\* +(num / den).toFixed(2) for the number num / den: the nearest hundredth.
\* The product is a binary fraction, so a decimal value halfway between two
\* hundredths lies a little above or below the half; `up` is the side.
toFixed2Number(num, den, up) ==
    LET step == den * (Unit \div 100)
        low == Abs(num) \div step
        rem == Abs(num) - (low * step)
        hundredths ==
            IF (2 * rem > step) \/ (2 * rem = step /\ up) THEN low + 1
            ELSE low
    IN  (IF num < 0 THEN -hundredths ELSE hundredths) * (Unit \div 100)

\* the derivation with every intermediate rounded once, at the end
TaxDerivationRoundedOnce(taxableAmount, gstRate, gstType, upTax, upNet) ==
    LET percent == gstRate \div Unit
        igstVal == IF gstType = "IGST"
                   THEN toFixed2Number(taxableAmount * percent, 100, upTax)
                   ELSE 0
        cgstVal == IF gstType = "IGST" THEN 0
                   ELSE toFixed2Number(taxableAmount * percent, 200, upTax)
    IN  [rendered |-> TRUE, taxableAmount |-> taxableAmount,
         gstRate |-> gstRate, gstType |-> gstType,
         igstVal |-> igstVal, cgstVal |-> cgstVal, sgstVal |-> cgstVal,
         netAmountVal |->
             toFixed2Number(taxableAmount * (100 + percent), 100, upNet)]

\* lines 409-421: igstRateNum = gstRate, or cgstRateNum = sgstRateNum =
\* gstRate / 2; the two halves are the same expression and round alike
TaxDerivation(taxableAmount, gstRate, gstType, upTax, upNet) ==
    LET percent == gstRate \div Unit
        igstVal == IF gstType = "IGST"
                   THEN toFixed2Number(taxableAmount * percent, 100, upTax)
                   ELSE 0
        cgstVal == IF gstType = "IGST" THEN 0
                   ELSE toFixed2Number(taxableAmount * percent, 200, upTax)
        sgstVal == IF gstType = "IGST" THEN 0
                   ELSE toFixed2Number(taxableAmount * percent, 200, upTax)
    IN  [rendered |-> TRUE, taxableAmount |-> taxableAmount,
         gstRate |-> gstRate, gstType |-> gstType,
         igstVal |-> igstVal, cgstVal |-> cgstVal, sgstVal |-> sgstVal,
         netAmountVal |->
             IF gstType = "IGST"
             THEN toFixed2Number(taxableAmount + igstVal, 1, upNet)
             ELSE toFixed2Number(taxableAmount + cgstVal + sgstVal, 1,
                                 upNet)]

\* a render of the preview: the derivation and the amount in words
RenderPreview(taxableAmount, gstRate, gstType, upTax, upNet) ==
    /\ tax' = TaxDerivation(taxableAmount, gstRate, gstType, upTax, upNet)
    /\ amountInWords' = amountToWordsWithPaise(Split(tax'.netAmountVal))
    /\ UNCHANGED invoiceData
    /\ UNCHANGED <<loaderVars, displayVars, reportVars, flowVars>>

\* no preview has been rendered
PreviewInit ==
    tax = [rendered |-> FALSE, taxableAmount |-> 0, gstRate |-> 0,
           gstType |-> "IGST", igstVal |-> 0, cgstVal |-> 0, sgstVal |-> 0,
           netAmountVal |-> 0]

(***************************************************************************)
(* The currency formatters: formatMarathiNumber and formatMarathiCurrency  *)
(* of marathiDigits.ts, formatCurrencyValue of InvoicePreview and the      *)
(* page-level formatAmount, applied to one amount.                         *)
(***************************************************************************)
\* a number, or null / undefined / NaN
NoNumber == [null |-> TRUE, num |-> 0]
Number(x) == [null |-> FALSE, num |-> x]

formatMarathiNumber(value) ==
    IF value.null THEN <<>> ELSE englishToMarathi(toFixed2(value.num))

formatMarathiCurrency(value) ==
    IF value.null \/ value.num = 0 THEN <<>> ELSE formatMarathiNumber(value)

\* if (!value && value !== 0) return ''
formatCurrencyValue(value) ==
    IF value.null THEN <<>>
    ELSE englishToMarathi(toLocaleStringEnIN(value.num))

\* the amounts formatted: no amount, and Rupee/Paise pairs from 0.00 to
\* 12,34,567.99, as they are and negated
DisplayPairs ==
    {NullPair}
    \cup {Pair(rs * Unit, paise * Unit) :
              rs \in {0, 1, 12, 127, 1234, 12345, 123456, 1234567},
              paise \in {0, 1, 5, 10, 50, 75, 99}}

\* the number a pair stands for
Amount(pair, isNegative) ==
    IF pair.null THEN NoNumber
    ELSE LET total == pair.rs + (pair.paise \div 100)
         IN  Number(IF isNegative THEN -total ELSE total)

Display(pair, isNegative) ==
    [pair |-> pair, isNegative |-> isNegative,
     value |-> Amount(pair, isNegative),
     formatMarathiCurrency |->
         formatMarathiCurrency(Amount(pair, isNegative)),
     formatCurrencyValue |-> formatCurrencyValue(Amount(pair, isNegative)),
     formatAmount |-> formatAmount(pair, isNegative)]

\* a render that formats an amount with each formatter
FormatForDisplay(pair, isNegative) ==
    /\ display' = Display(pair, isNegative)
    /\ UNCHANGED <<loaderVars, pageVars, previewVars, digitText, phonetic,
                   reportVars, flowVars>>

\* the characters and the length of the texts given to the digit utilities
TextChars == {"1", "U0968", ",", ".", "a"}
MaxTextLen == 3

RECURSIVE TextsOfLen(_)
TextsOfLen(n) ==
    IF n = 0 THEN {<<>>}
    ELSE {Append(t, ch) : t \in TextsOfLen(n - 1), ch \in TextChars}

Texts == UNION {TextsOfLen(n) : n \in 0..MaxTextLen}

\* marathiDigits.ts and marathiTransliteration.ts applied to one text
DigitUtilities(text) ==
    [text |-> text,
     parseMarathiNumber |-> parseMarathiNumber(text),
     marathiToEnglish |-> marathiToEnglish(text),
     englishToMarathi |-> englishToMarathi(text),
     convertNumbersToMarathi |-> convertNumbersToMarathi(text)]

\* a call of each digit utility with a text
ConvertDigits(text) ==
    /\ digitText' = DigitUtilities(text)
    /\ UNCHANGED <<loaderVars, pageVars, previewVars, display, phonetic,
                   reportVars, flowVars>>

(***************************************************************************)
(* phoneticTransliteration.ts: phoneticTransliterate.                      *)
(***************************************************************************)
\* the patterns of two characters, in the order of the tests
PhoneticPairs ==
    <<"m", "b">> :> <<"U092E", "U094D", "U092C">>
    @@ <<"a", "i">> :> <<"U0910">>
    @@ <<"l", "l">> :> <<"U0932", "U094D", "U0932">>
    @@ <<"s", "k">> :> <<"U0938", "U094D", "U0915">>
    @@ <<"s", "h">> :> <<"U0936">> @@ <<"c", "h">> :> <<"U091A">>
    @@ <<"t", "h">> :> <<"U0925">> @@ <<"k", "h">> :> <<"U0916">>
    @@ <<"g", "h">> :> <<"U0918">> @@ <<"b", "h">> :> <<"U092D">>
    @@ <<"p", "h">> :> <<"U092B">> @@ <<"d", "h">> :> <<"U0927">>
    @@ <<"j", "h">> :> <<"U091D">>

\* the vowels and the consonants
PhoneticSingles ==
    "a" :> "U0905" @@ "i" :> "U0907" @@ "u" :> "U0909" @@ "e" :> "U090F"
    @@ "o" :> "U0913" @@ "m" :> "U092E" @@ "b" :> "U092C" @@ "d" :> "U0926"
    @@ "l" :> "U0932" @@ "h" :> "U0939" @@ "k" :> "U0915" @@ "r" :> "U0930"
    @@ "s" :> "U0938" @@ "c" :> "U091A" @@ "t" :> "U0924" @@ "p" :> "U092A"
    @@ "g" :> "U0917" @@ "j" :> "U091C" @@ "n" :> "U0928" @@ "y" :> "U092F"
    @@ "v" :> "U0935" @@ "w" :> "U0935"

\* result += text[i]: an index past the end of text reads undefined
TextAt(text, i) ==
    IF i <= Len(text) THEN <<text[i]>>
    ELSE <<"u", "n", "d", "e", "f", "i", "n", "e", "d">>

RECURSIVE phoneticScan(_, _, _)
\* the while loop from position i of lowerText (positions count from 1)
phoneticScan(text, lowerText, i) ==
    IF i > Len(lowerText) THEN <<>>
    ELSE LET char == lowerText[i]
             nextChar == IF i + 1 <= Len(lowerText) THEN lowerText[i + 1]
                         ELSE ""
         IN  IF char = "a" /\ nextChar = "i" /\ i + 1 >= Len(lowerText)
             THEN <<"U0908">> \o phoneticScan(text, lowerText, i + 2)
             ELSE IF <<char, nextChar>> \in DOMAIN PhoneticPairs
             THEN PhoneticPairs[<<char, nextChar>>]
                  \o phoneticScan(text, lowerText, i + 2)
             ELSE IF char \in DOMAIN PhoneticSingles
             THEN <<PhoneticSingles[char]>>
                  \o phoneticScan(text, lowerText, i + 1)
             ELSE TextAt(text, i) \o phoneticScan(text, lowerText, i + 1)

phoneticTransliterate(text) ==
    IF text = <<>> THEN text
    ELSE IF \E i \in 1..Len(text) : IsDevanagariChar(text[i]) THEN text
    ELSE phoneticScan(text, toLowerCase(text), 1)

\* the characters and the length of the words given to it
WordChars == {"a", "i", "m", "b", "h", "S", ".", "1", "U0130"}
MaxWordLen == 3

RECURSIVE WordsOfLen(_)
WordsOfLen(n) ==
    IF n = 0 THEN {<<>>}
    ELSE {Append(t, ch) : t \in WordsOfLen(n - 1), ch \in WordChars}

PhoneticWords == UNION {WordsOfLen(n) : n \in 0..MaxWordLen}

\* a call of phoneticTransliterate with a word
Transliterate(word) ==
    /\ phonetic' = [text |-> word, result |-> phoneticTransliterate(word)]
    /\ UNCHANGED <<loaderVars, pageVars, previewVars, display, digitText,
                   reportVars, flowVars>>

\* nothing has been formatted or converted
DisplayInit ==
    /\ display = Display(NullPair, FALSE)
    /\ digitText = DigitUtilities(<<>>)
    /\ phonetic = [text |-> <<>>, result |-> phoneticTransliterate(<<>>)]

(***************************************************************************)
(* reports/page.tsx.  A field of an invoice's data is a JSON value; a date *)
(* is the number of its day, 0 standing for no date, and a point in time   *)
(* is counted in minutes.                                                  *)
(***************************************************************************)
Undefined == [kind |-> "undefined", num |-> 0, text |-> <<>>]
JsonNull == [kind |-> "null", num |-> 0, text |-> <<>>]
JsonNumber(x) == [kind |-> "number", num |-> x, text |-> <<>>]
JsonString(text) == [kind |-> "string", num |-> 0, text |-> text]

\* left ?? right
Coalesce(left, right) ==
    IF left.kind \in {"undefined", "null"} THEN right ELSE left

getGrandTotalFromInvoice(inv) ==
    LET data == inv.data
        raw == Coalesce(data.grandTotalRs,
               Coalesce(data.grandTotal,
               Coalesce(data.netAmount,
               Coalesce(data.totalCollection, JsonNumber(0)))))
        cleaned == SelectSeq(raw.text,
                             LAMBDA ch : ch \in AsciiDigits \cup {".", "-"})
        parsed == parseFloat(cleaned)
    IN  IF raw.kind = "number" THEN raw.num
        ELSE IF raw.kind = "string" /\ trim(raw.text) # <<>>
        THEN (IF parsed.nan THEN 0 ELSE parsed.val)
        ELSE 0

RECURSIVE totalRevenue(_)
\* invoicesArray.reduce((sum, inv) => sum + getGrandTotalFromInvoice(inv), 0)
totalRevenue(invoicesArray) ==
    IF invoicesArray = <<>> THEN 0
    ELSE totalRevenue(SubSeq(invoicesArray, 1, Len(invoicesArray) - 1))
         + getGrandTotalFromInvoice(invoicesArray[Len(invoicesArray)])

\* an invoice without totals
NoTotals ==
    [grandTotalRs |-> Undefined, grandTotal |-> Undefined,
     netAmount |-> Undefined, totalCollection |-> Undefined]

Invoice(invoiceDate, mrRaRa, data) ==
    [invoiceDate |-> invoiceDate, mrRaRa |-> mrRaRa, data |-> data]

\* the answers of the server in ReportSpec: no invoice, one invoice, three
\* invoices of two clients on the days 1 to 3, one of them without a date
InvoiceLists ==
    {<<>>,
     <<Invoice(2, "A", NoTotals)>>,
     <<Invoice(1, "A", NoTotals), Invoice(2, "B", NoTotals),
       Invoice(3, "A", NoTotals), Invoice(0, "B", NoTotals)>>}

\* the answers of the server in RevenueSpec: one invoice with any totals
TotalsLists ==
    {<<Invoice(2, "A", data)>> :
        data \in [grandTotalRs : {Undefined, JsonNull, JsonString(<<>>),
                                  JsonNumber(12 * Unit),
                                  JsonString(<<"1", ",", "1", "8", "0", ".",
                                               "5", "0">>)},
                  grandTotal : {Undefined, JsonString(<<>>),
                                JsonString(<<"1", "2", ".", "5", "0">>),
                                JsonString(<<"a", "b", "c">>)},
                  netAmount : {Undefined, JsonString(<<"-", "7">>)},
                  totalCollection : {Undefined, JsonNull,
                                     JsonNumber((4175 * Unit) + 110)}]}

\* the values of the date inputs and of the client selector
DateInputs == {0, 2}
ClientInputs == {"", "A", "B"}

\* the browser's offset from UTC in minutes: New York, London, Mumbai
UtcOffsets == {-300, 0, 330}

\* new Date(y, m, d) of parseDate: the local midnight of the day
LocalMidnight(day, utcOffset) == (day * 24 * 60) - utcOffset

\* new Date('YYYY-MM-DD'): the UTC midnight of the day
UtcMidnight(day) == day * 24 * 60

\* the invoices that pass the date range, if complete, and the client
filteredInvoices(r) ==
    SelectSeq(r.invoices, LAMBDA inv :
        /\ (r.startDate # 0 /\ r.endDate # 0) =>
               /\ inv.invoiceDate # 0
               /\ LocalMidnight(inv.invoiceDate, r.utcOffset)
                      >= UtcMidnight(r.startDate)
               /\ LocalMidnight(inv.invoiceDate, r.utcOffset)
                      <= UtcMidnight(r.endDate)
        /\ (r.selectedMovie = "" \/ inv.mrRaRa = r.selectedMovie))

NoOutcome ==
    [kind |-> "none", rows |-> 0, startDate |-> 0, endDate |-> 0,
     selectedMovie |-> ""]

\* what a run of generateExcelReport did, with the filters it ran with
Outcome(kind, rows, r) ==
    [kind |-> kind, rows |-> rows, startDate |-> r.startDate,
     endDate |-> r.endDate, selectedMovie |-> r.selectedMovie]

\* generateExcelReport; `written` tells whether XLSX.writeFile returned or
\* the try block threw.  setGeneratingReport(true) is followed by
\* setGeneratingReport(false) in the same run on both paths.
generateExcelReport(r, written) ==
    IF r.startDate = 0 /\ r.endDate = 0 /\ r.selectedMovie = ""
    THEN [r EXCEPT !.outcome = Outcome("alert", 0, r)]
    ELSE IF Len(filteredInvoices(r)) = 0
    THEN [r EXCEPT !.outcome = Outcome("alert", 0, r)]
    ELSE IF written
    THEN [r EXCEPT !.generatingReport = FALSE,
                   !.showDateSelector = FALSE,
                   !.outcome = Outcome("file", Len(filteredInvoices(r)), r)]
    ELSE [r EXCEPT !.generatingReport = FALSE,
                   !.outcome = Outcome("alert", 0, r)]

\* the effect on mount: the server's answer, or [] when the fetch fails
FetchInvoices(list, utcOffset) ==
    /\ reports.loading
    /\ reports' = [reports EXCEPT !.loading = FALSE, !.invoices = list,
                                   !.utcOffset = utcOffset]
    /\ UNCHANGED <<loaderVars, pageVars, previewVars, displayVars, flowVars>>

SetStartDate(value) ==
    /\ reports' = [reports EXCEPT !.startDate = value]
    /\ UNCHANGED <<loaderVars, pageVars, previewVars, displayVars, flowVars>>

SetEndDate(value) ==
    /\ reports' = [reports EXCEPT !.endDate = value]
    /\ UNCHANGED <<loaderVars, pageVars, previewVars, displayVars, flowVars>>

SetSelectedMovie(value) ==
    /\ reports' = [reports EXCEPT !.selectedMovie = value]
    /\ UNCHANGED <<loaderVars, pageVars, previewVars, displayVars, flowVars>>

\* a click on Generate Report, which is disabled without any filter
ClickGenerateReport(written) ==
    /\ ~((reports.startDate = 0 /\ reports.endDate = 0
          /\ reports.selectedMovie = "") \/ reports.generatingReport)
    /\ reports' = generateExcelReport(reports, written)
    /\ UNCHANGED <<loaderVars, pageVars, previewVars, displayVars, flowVars>>

ReportsInit ==
    reports = [loading |-> TRUE, invoices |-> <<>>, utcOffset |-> 0,
               startDate |-> 0, endDate |-> 0,
               selectedMovie |-> "", showDateSelector |-> FALSE,
               generatingReport |-> FALSE, outcome |-> NoOutcome]

(***************************************************************************)
(* The home page (HomePage), its Login component and the login page.        *)
(* localStorage holds rememberMe ("true" or absent) and loginTimestamp      *)
(* (absent: <<>>, else <<the time of the login>>).  Time is counted in      *)
(* hours.  A mount effect that React has scheduled and not yet run is in    *)
(* session.effects; the two effects of one commit run in either order.      *)
(***************************************************************************)
SESSION_TIMEOUT == 4

MaxClock == 5

USERID == "admin_01"

PASSWORD == "admin@123"

Userids == {USERID, "admin"}

Passwords == {PASSWORD, "admin123"}

NoItem == <<>>

\* HomePage.checkSession: the session after it, and what it returns
checkSession(s) ==
    IF ~hasWindow
    THEN [session |-> s, ret |-> FALSE]
    ELSE IF s.rememberMe /\ s.loginTimestamp = NoItem
    THEN [session |-> [s EXCEPT !.rememberMe = FALSE, !.auth = FALSE],
          ret |-> FALSE]
    ELSE IF s.rememberMe
    THEN IF s.now - s.loginTimestamp[1] < SESSION_TIMEOUT
         THEN [session |-> [s EXCEPT !.auth = TRUE], ret |-> TRUE]
         ELSE [session |-> [s EXCEPT !.rememberMe = FALSE,
                                     !.loginTimestamp = NoItem,
                                     !.auth = FALSE],
               ret |-> FALSE]
    ELSE [session |-> s, ret |-> FALSE]

\* HomePage.handleLogin, the onLogin of the Login component
handleLogin(s) ==
    [s EXCEPT !.loginTimestamp = IF hasWindow THEN <<s.now>> ELSE @,
              !.auth = TRUE]

\* HomePage.handleLogout
handleLogout(s) ==
    [s EXCEPT !.rememberMe = FALSE, !.loginTimestamp = NoItem,
              !.auth = FALSE]

\* the Login component is mounted when auth turns false: its mount effect
\* is scheduled
Rendered(before, after) ==
    IF before.auth /\ ~after.auth
    THEN [after EXCEPT !.effects = @ \cup {"Login"}, !.error = ""]
    ELSE after

\* HomePage is mounted: first render with auth = false, so the Login
\* component is mounted with it
MountHomePage(s) ==
    [s EXCEPT !.page = "home", !.auth = FALSE, !.interval = FALSE,
              !.listeners = FALSE, !.effects = {"Login", "HomePage"},
              !.error = ""]

\* the browser opens or reloads the home page
LoadHomePage ==
    /\ session.effects = {}
    /\ session' = MountHomePage(session)
    /\ UNCHANGED sessionFrame

\* the mount effect of the Login component
RunLoginEffect ==
    /\ "Login" \in session.effects
    /\ LET s == [session EXCEPT !.effects = @ \ {"Login"}]
       IN  session' = IF hasWindow /\ s.rememberMe THEN handleLogin(s) ELSE s
    /\ UNCHANGED sessionFrame

\* the mount effect of HomePage: a session check, then the minute timer and
\* the activity listeners are installed
RunHomePageEffect ==
    /\ "HomePage" \in session.effects
    /\ LET s == [session EXCEPT !.effects = @ \ {"HomePage"}]
       IN  session' = [checkSession(s).session EXCEPT !.interval = TRUE,
                                                      !.listeners = TRUE]
    /\ UNCHANGED sessionFrame

\* the minute timer fires
TimerTick ==
    /\ session.page = "home"
    /\ session.effects = {}
    /\ session.interval
    /\ LET r == checkSession(session)
       IN  session' = Rendered(session,
                               [r.session EXCEPT !.interval = r.ret])
    /\ UNCHANGED sessionFrame

\* a mousedown, mousemove, keypress, scroll or touchstart event
UserActivity ==
    /\ session.page = "home"
    /\ session.effects = {}
    /\ session.listeners
    /\ LET r == checkSession(session)
       IN  session' = Rendered(session,
                               [r.session EXCEPT !.listeners = r.ret])
    /\ UNCHANGED sessionFrame

\* a login form that compares the userid only
SubmitLoginUseridOnly(userid, password, remember) ==
    /\ session.page = "home"
    /\ session.effects = {}
    /\ ~session.auth
    /\ session' =
           IF userid = USERID
           THEN handleLogin([session EXCEPT !.rememberMe = remember])
           ELSE [session EXCEPT !.error = "Invalid userid or password"]
    /\ UNCHANGED sessionFrame

\* Login.handleLogin: the form of the Login component is submitted
SubmitLogin(userid, password, remember) ==
    /\ session.page = "home"
    /\ session.effects = {}
    /\ ~session.auth
    /\ session' =
           IF userid = USERID /\ password = PASSWORD
           THEN handleLogin([session EXCEPT !.rememberMe = remember])
           ELSE [session EXCEPT !.error = "Invalid userid or password"]
    /\ UNCHANGED sessionFrame

\* the Dashboard's logout
Logout ==
    /\ session.page = "home"
    /\ session.effects = {}
    /\ session.auth
    /\ session' = Rendered(session, handleLogout(session))
    /\ UNCHANGED sessionFrame

\* the browser opens the login page: HomePage is unmounted and the mount
\* effect of LoginPage runs
OpenLoginPage ==
    /\ session.effects = {}
    /\ LET s == [session EXCEPT !.page = "login", !.auth = FALSE,
                                !.interval = FALSE, !.listeners = FALSE,
                                !.error = ""]
       IN  session' =
               IF s.rememberMe /\ s.loginTimestamp = NoItem
               THEN [s EXCEPT !.rememberMe = FALSE]
               ELSE IF s.rememberMe
               THEN IF s.now - s.loginTimestamp[1] < SESSION_TIMEOUT
                    THEN MountHomePage(s)
                    ELSE [s EXCEPT !.rememberMe = FALSE,
                                   !.loginTimestamp = NoItem]
               ELSE s
    /\ UNCHANGED sessionFrame

\* LoginPage.handleLogin: the form of the login page is submitted
SubmitLoginPage(userid, password, remember) ==
    /\ session.page = "login"
    /\ session' =
           IF userid = USERID /\ password = PASSWORD
           THEN MountHomePage([session EXCEPT
                                   !.loginTimestamp = <<session.now>>,
                                   !.rememberMe = remember])
           ELSE [session EXCEPT !.error = "Invalid username or password"]
    /\ UNCHANGED sessionFrame

\* an hour passes
HourPasses ==
    /\ session.effects = {}
    /\ session.now < MaxClock
    /\ session' = [session EXCEPT !.now = @ + 1]
    /\ UNCHANGED sessionFrame

SessionInit ==
    session = [page |-> "home", auth |-> FALSE, rememberMe |-> FALSE,
               loginTimestamp |-> NoItem, now |-> 0, interval |-> FALSE,
               listeners |-> FALSE, effects |-> {"Login", "HomePage"},
               error |-> ""]

(***************************************************************************)
(* Saving an invoice.  The direct-entry page exports the preview to a PDF   *)
(* and then saves (handleDownloadPDF, saveInvoice); the Excel page saves    *)
(* the uploaded invoice (handleSaveInvoice).  Each click starts a run of    *)
(* the async handler; a run rests at its awaits.  The preview holds one     *)
(* editable input, one table cell and one text label.                       *)
(***************************************************************************)
Runs == {"r1", "r2"}

\* the replacement spans the model lets pile up in the preview
MaxSpans == 2

InvoiceNumbers == {"", "INV-1"}

\* the inline styles as the page renders them
OriginalStyles ==
    [input |-> [display |-> "", visibility |-> ""],
     cell |-> [overflow |-> "", whiteSpace |-> "", minHeight |-> "24px"],
     label |-> [transform |-> "", position |-> ""]]

IdleRun == [pc |-> "idle", invoiceNo |-> "", originalStyles |-> OriginalStyles,
            confirmed |-> FALSE]

\* handleDownloadPDF, 375-506: the styles after the input is hidden behind a
\* text span, the cell is opened up and the label is shifted
PatchedStyles(styles) ==
    [input |-> [display |-> "none", visibility |-> "hidden"],
     cell |-> [overflow |-> "visible", whiteSpace |-> "normal",
               minHeight |-> IF styles.cell.minHeight \in {"", "24px"}
                             THEN "auto"
                             ELSE styles.cell.minHeight],
     label |-> [transform |-> "translateY(-3px)", position |-> "relative"]]

\* handleDownloadPDF, 523-567: the input is shown again, then every saved
\* style is written back; transform and position only if one of them was set
RestoredStyles(styles, originalStyles) ==
    [input |-> originalStyles.input,
     cell |-> originalStyles.cell,
     label |-> IF originalStyles.label.transform # ""
                  \/ originalStyles.label.position # ""
               THEN originalStyles.label
               ELSE styles.label]

\* a click on "Download PDF & Save": handleDownloadPDF starts and awaits the
\* imports and the images
ClickDownloadPDF(r) ==
    /\ route = "direct"
    /\ ~exporter.isSaving
    /\ exporter.runs[r].pc = "idle"
    /\ exporter' = [exporter EXCEPT
                        !.runs[r] = [IdleRun EXCEPT
                                         !.pc = "loading",
                                         !.invoiceNo = exporter.inNo]]
    /\ UNCHANGED <<saveFrame, upload, backend, route>>

\* the imports and the images are settled: on success the styles are saved
\* and patched and html2canvas is awaited
ImagesLoaded(r, ok) ==
    /\ exporter.runs[r].pc = "loading"
    /\ ok => exporter.spans < MaxSpans
    /\ exporter' =
           IF ok
           THEN [exporter EXCEPT
                     !.runs[r].pc = "rendering",
                     !.runs[r].originalStyles = exporter.styles,
                     !.styles = PatchedStyles(exporter.styles),
                     !.spans = @ + 1]
           ELSE [exporter EXCEPT !.runs[r] = IdleRun]
    /\ UNCHANGED <<saveFrame, upload, backend, route>>

\* html2canvas is settled: on success the styles are restored, the PDF is
\* downloaded and saveInvoice starts
CanvasRendered(r, ok) ==
    /\ exporter.runs[r].pc = "rendering"
    /\ LET run == exporter.runs[r]
           restored == [exporter EXCEPT
                            !.styles = RestoredStyles(exporter.styles,
                                                      run.originalStyles),
                            !.spans = @ - 1]
       IN  exporter' =
               IF ~ok
               THEN [exporter EXCEPT !.runs[r] = IdleRun]
               ELSE IF run.invoiceNo = ""
               THEN [restored EXCEPT !.runs[r] = IdleRun]
               ELSE [restored EXCEPT !.runs[r].pc = "checking",
                                     !.isSaving = TRUE]
    /\ UNCHANGED <<saveFrame, upload, backend, route>>

\* a save that sends the invoice whatever the user answers
InvoicesFetchedAnswerIgnored(r, ok, confirmSave) ==
    /\ exporter.runs[r].pc = "checking"
    /\ LET duplicate == exporter.runs[r].invoiceNo \in backend
       IN  exporter' =
               IF ~ok
               THEN [exporter EXCEPT !.runs[r] = IdleRun, !.isSaving = FALSE]
               ELSE [exporter EXCEPT
                         !.runs[r].pc = "posting",
                         !.runs[r].confirmed = duplicate /\ confirmSave]
    /\ UNCHANGED <<saveFrame, upload, backend, route>>

\* saveInvoice, 686-700: the stored invoices arrive (or the fetch fails); a
\* duplicate number asks the user
InvoicesFetched(r, ok, confirmSave) ==
    /\ exporter.runs[r].pc = "checking"
    /\ LET duplicate == exporter.runs[r].invoiceNo \in backend
       IN  exporter' =
               IF ~ok \/ (duplicate /\ ~confirmSave)
               THEN [exporter EXCEPT !.runs[r] = IdleRun, !.isSaving = FALSE]
               ELSE [exporter EXCEPT !.runs[r].pc = "posting",
                                     !.runs[r].confirmed = duplicate]
    /\ UNCHANGED <<saveFrame, upload, backend, route>>

\* saveInvoice, 705-724: the invoice-upload POST is answered
UploadAnswered(r, outcome) ==
    /\ exporter.runs[r].pc = "posting"
    /\ exporter' = [exporter EXCEPT !.runs[r] = IdleRun, !.isSaving = FALSE]
    /\ backend' = IF outcome = "ok"
                  THEN backend \cup {exporter.runs[r].invoiceNo}
                  ELSE backend
    /\ UNCHANGED <<saveFrame, upload, route>>

\* the user edits the invoice number
SetInvoiceNo(value) ==
    /\ route = "direct"
    /\ exporter' = [exporter EXCEPT !.inNo = value]
    /\ UNCHANGED <<saveFrame, upload, backend, route>>

PostOutcomes == {"ok", "error", "throw"}

\* The Excel page.  upload.invoiceData is <<>> for null and <<number>> for an
\* uploaded invoice with that In_no; upload.alert is the last alert shown.
\* InvoiceForm hands over the first invoice of the uploaded file
handleInvoiceChange(invoiceNo) ==
    /\ route = "excel"
    /\ upload' = [upload EXCEPT !.invoiceData = <<invoiceNo>>]
    /\ UNCHANGED <<saveFrame, exporter, backend, route>>

handlePreview ==
    /\ route = "excel"
    /\ upload.invoiceData # <<>>
    /\ upload' = [upload EXCEPT !.showPreview = TRUE]
    /\ UNCHANGED <<saveFrame, exporter, backend, route>>

\* a click on "Save Invoice": handleSaveInvoice runs up to its first await
ClickSaveInvoice ==
    /\ route = "excel"
    /\ upload.showPreview
    /\ upload.invoiceData # <<>>
    /\ ~upload.isUploading
    /\ upload' =
           IF upload.invoiceData[1] = ""
           THEN [upload EXCEPT !.alert = "Invoice number is required",
                               !.isUploading = FALSE]
           ELSE [upload EXCEPT !.isUploading = TRUE,
                               !.pc = "checking",
                               !.invoiceNo = upload.invoiceData[1],
                               !.confirmed = FALSE]
    /\ UNCHANGED <<saveFrame, exporter, backend, route>>

\* handleSaveInvoice, 154-166: the stored invoices arrive (or the fetch
\* fails); a duplicate number asks the user
SaveInvoicesFetched(ok, confirmSave) ==
    /\ upload.pc = "checking"
    /\ LET duplicate == upload.invoiceNo \in backend
       IN  upload' =
               IF ~ok
               THEN [upload EXCEPT
                         !.pc = "idle", !.isUploading = FALSE,
                         !.alert = "Error saving invoice. Please try again."]
               ELSE IF duplicate /\ ~confirmSave
               THEN [upload EXCEPT !.pc = "idle", !.isUploading = FALSE]
               ELSE [upload EXCEPT !.pc = "posting",
                                   !.confirmed = duplicate]
    /\ UNCHANGED <<saveFrame, exporter, backend, route>>

\* a save without the finally block: a thrown exception leaves the flag set
SaveUploadAnsweredNoFinally(outcome) ==
    /\ upload.pc = "posting"
    /\ upload' =
           CASE outcome = "ok" ->
                    [upload EXCEPT !.pc = "idle", !.isUploading = FALSE,
                                   !.alert = "Invoice saved successfully!",
                                   !.invoiceData = <<>>,
                                   !.showPreview = FALSE]
             [] outcome = "error" ->
                    [upload EXCEPT !.pc = "idle", !.isUploading = FALSE,
                                   !.alert = "Error saving invoice: "]
             [] OTHER ->
                    [upload EXCEPT
                         !.pc = "idle",
                         !.alert = "Error saving invoice. Please try again."]
    /\ backend' = IF outcome = "ok"
                  THEN backend \cup {upload.invoiceNo}
                  ELSE backend
    /\ UNCHANGED <<saveFrame, exporter, route>>

\* handleSaveInvoice, 169-189: the invoice-upload POST is answered
SaveUploadAnswered(outcome) ==
    /\ upload.pc = "posting"
    /\ upload' =
           CASE outcome = "ok" ->
                    [upload EXCEPT !.pc = "idle", !.isUploading = FALSE,
                                   !.alert = "Invoice saved successfully!",
                                   !.invoiceData = <<>>,
                                   !.showPreview = FALSE]
             [] outcome = "error" ->
                    [upload EXCEPT !.pc = "idle", !.isUploading = FALSE,
                                   !.alert = "Error saving invoice: "]
             [] OTHER ->
                    [upload EXCEPT
                         !.pc = "idle", !.isUploading = FALSE,
                         !.alert = "Error saving invoice. Please try again."]
    /\ backend' = IF outcome = "ok"
                  THEN backend \cup {upload.invoiceNo}
                  ELSE backend
    /\ UNCHANGED <<saveFrame, exporter, route>>

\* the state of the direct-entry page when it is mounted
ExporterInit ==
    [isSaving |-> FALSE, inNo |-> "", styles |-> OriginalStyles,
     spans |-> 0, runs |-> [r \in Runs |-> IdleRun]]

\* the state of the Excel page when it is mounted
UploadInit ==
    [invoiceData |-> <<>>, showPreview |-> FALSE, isUploading |-> FALSE,
     pc |-> "idle", invoiceNo |-> "", confirmed |-> FALSE, alert |-> ""]

Routes == {"direct", "excel"}

\* the user goes to the other page while no export or save is running: the
\* page that is left is unmounted and the other one is mounted afresh
Navigate(to) ==
    /\ route # to
    /\ \A r \in Runs : exporter.runs[r].pc = "idle"
    /\ upload.pc = "idle"
    /\ route' = to
    /\ exporter' = ExporterInit
    /\ upload' = UploadInit
    /\ UNCHANGED <<saveFrame, backend>>

SaveInit ==
    /\ exporter = ExporterInit
    /\ upload = UploadInit
    /\ backend = {}
    /\ route = "direct"

(***************************************************************************)
(* The text fields of the direct-entry page.  A blur of an EditableSpan     *)
(* reads the input and awaits convertInputToMarathiAsync; when the          *)
(* conversion returns without reaching the engine the field is stored       *)
(* before any other event, otherwise the blur stays in flight until the     *)
(* engine settles.  Blurs are numbered in the order they happen;            *)
(* editor.latest and editor.origin remember, per field, the number of the   *)
(* last blur and of the blur whose text is stored.                          *)
(***************************************************************************)
TextFields == {"mrRaRa", "place"}

BlurTexts ==
    {<<>>, <<"a", "b">>, <<"a", "b", " ", "1">>, <<"U092E", " ", "1">>}

MaxBlurs == 3

NoBlur == [state |-> "unused", field |-> "", text |-> <<>>]

\* what handleBlur hands to onChange once the engine has settled
BlurValue(text, outcome) ==
    LET arg == convertInputToMarathiAsync(text).value
        input == toLowerCase(preprocessTextForTransliteration(arg))
        transliterated == IF Accepted(outcome, input)
                          THEN ProcessResult(outcome, input)
                          ELSE arg
    IN  EntryReturn("convertInputToMarathiAsync", text, transliterated)

\* handleInputChange for a text field: setInvoiceData(prev => ({...prev,
\* [field]: value}))
StoreText(e, field, value, blur) ==
    [e EXCEPT !.fields[field] = value, !.origin[field] = blur]

\* EditableSpan.handleBlur of a text field
HandleBlurText(field, text) ==
    /\ editor.blurs < MaxBlurs
    /\ LET blur == editor.blurs + 1
           head == convertInputToMarathiAsync(text)
           e == [editor EXCEPT !.blurs = blur, !.latest[field] = blur]
       IN  editor' =
               IF head.returned
               THEN [StoreText(e, field, head.value, blur) EXCEPT
                         !.inFlight[blur] = [NoBlur EXCEPT !.state = "done"]]
               ELSE [e EXCEPT !.inFlight[blur] =
                                  [state |-> "pending", field |-> field,
                                   text |-> text]]
    /\ UNCHANGED editFrame

\* the engine settles for a blur in flight and handleBlur calls onChange
BlurSettles(blur, outcome) ==
    /\ editor.inFlight[blur].state = "pending"
    /\ LET task == editor.inFlight[blur]
       IN  editor' = [StoreText(editor, task.field,
                                BlurValue(task.text, outcome), blur) EXCEPT
                          !.inFlight[blur] = [NoBlur EXCEPT !.state = "done"]]
    /\ UNCHANGED editFrame

EditorInit ==
    editor = [fields |-> [f \in TextFields |-> <<>>],
              latest |-> [f \in TextFields |-> 0],
              origin |-> [f \in TextFields |-> 0],
              blurs |-> 0,
              inFlight |-> [k \in 1..MaxBlurs |-> NoBlur]]

(***************************************************************************)
(* The invoice that saveInvoice sends and the reports page reads back.      *)
(* JSON.stringify and the backend keep a number a number and a text a text. *)
(***************************************************************************)
\* a summary field after the round trip: `x ?? ''` is the number or ''
StoredNumber(field) ==
    IF field.blank THEN JsonString(<<>>) ELSE JsonNumber(field.num)

\* the fields getGrandTotalFromInvoice reads, as the saved invoice has them
StoredTotals(enriched) ==
    [grandTotalRs |-> StoredNumber(enriched.grandTotalRs),
     grandTotal |-> JsonString(enriched.grandTotal),
     netAmount |-> JsonString(enriched.netAmount),
     totalCollection |-> JsonString(enriched.totalCollection)]

\* total sales - total expenses with its sign and its paise, 0 for null
SignedAmount(netBalance) ==
    IF netBalance.null THEN 0
    ELSE IF netBalance.isNegative
         THEN -(netBalance.rs + (netBalance.paise \div 100))
         ELSE netBalance.rs + (netBalance.paise \div 100)

SignedNetBalance == SignedAmount(calculateNetBalance)

\* saveInvoice, 634-711: the invoice is enriched, sent and stored; the
\* reports page receives it with the other invoices
SaveEnrichedInvoice ==
    /\ savedInvoice' =
           [present |-> TRUE,
            netBalance |-> SignedNetBalance,
            invoice |-> Invoice(1, "A", StoredTotals(enrichedInvoiceData))]
    /\ UNCHANGED <<loaderVars, baseVars, sessionVars, saveVars, editVars>>

SavedInit ==
    savedInvoice = [present |-> FALSE, netBalance |-> 0,
                    invoice |-> Invoice(1, "A", NoTotals)]

\* the inputs typed into before a save: the first goods row and the first
\* expense row
SavedFields ==
    {<<"row", 0, "item">>, <<"row", 0, "price">>, <<"expense", 0, "amount">>}

(***************************************************************************)
(* The initial state and the specifications.                                *)
(***************************************************************************)
Init ==
    /\ hasWindow \in BOOLEAN
    /\ winAksharamukha = FALSE
    /\ scriptEl = "absent"
    /\ Aksharamukha = FALSE
    /\ isLoadingAksharamukha = FALSE
    /\ loadPromise = 0
    /\ loadState = [l \in Loads |-> "unused"]
    /\ aksharamukhaInstance = 0
    /\ newCalls = 0
    /\ fetches = 0
    /\ callers = [c \in Callers |-> IdleCaller]
    /\ PageInit
    /\ PreviewInit
    /\ DisplayInit
    /\ ReportsInit
    /\ SessionInit
    /\ SaveInit
    /\ EditorInit
    /\ SavedInit

\* steps the page's own code schedules: microtasks and timers
CodeStep ==
    \/ \E l \in Loads : Timer100(l) \/ Timer500(l) \/ IntervalTick(l)
                        \/ LoadResume(l)
    \/ \E c \in Callers : LoadReturns(c) \/ GotInstance(c)

\* AksharamukhaClass.new() settles
InstanceStep == \E c \in Callers, ok \in BOOLEAN : NewReturns(c, ok)

\* aksharamukha.processAsync settles
ProcessStep ==
    \E c \in Callers, o \in Outcomes : WholePhrase(c, o) \/ WordAttempt(c, o)

\* the events of the script element
ScriptEvent ==
    \/ \E defines \in BOOLEAN : ScriptLoad(defines)
    \/ ScriptError

\* Spec: any number of overlapping calls of getAksharamukhaInstance
Next ==
    \/ \E c \in Callers : Call(c, "getAksharamukhaInstance", <<>>)
    \/ CodeStep
    \/ InstanceStep
    \/ ScriptEvent
    \/ GlobalAppears

Spec == Init /\ [][Next]_vars

\* FairSpec: the event loop runs every microtask and timer that is due, new()
\* settles, and the browser fires load or error for every script it fetches;
\* nothing makes a script define its global after its load event
FairSpec ==
    Spec /\ WF_vars(CodeStep) /\ WF_vars(InstanceStep) /\ WF_vars(ScriptEvent)

\* EngineSpec: caller 1 calls an entry point of the engine with a text, while
\* the other callers call getAksharamukhaInstance
EngineNext ==
    \/ \E e \in Entries, t \in Inputs : Call(1, e, t)
    \/ \E c \in Callers \ {1} : Call(c, "getAksharamukhaInstance", <<>>)
    \/ CodeStep
    \/ InstanceStep
    \/ ProcessStep
    \/ ScriptEvent
    \/ GlobalAppears

EngineSpec == Init /\ [][EngineNext]_vars

\* PageSpec: the user fills numeric fields of the direct-entry page in any
\* order, and amounts are spelled out in words
PageNext ==
    \/ \E f \in EditedFields : \E t \in TypedTexts(f) : HandleBlur(f, t)
    \/ \E a \in Amounts : AmountInWords(a)

\* the page runs in a browser
PageStart == Init /\ hasWindow = TRUE

PageSpec == PageStart /\ [][PageNext]_vars

\* PreviewSpec: the preview is rendered with any taxable amount, GST rate
\* and GST type
PreviewNext ==
    \E taxableAmount \in TaxableAmounts, gstRate \in GstRates,
       gstType \in GstTypes, upTax \in BOOLEAN, upNet \in BOOLEAN :
        RenderPreview(taxableAmount, gstRate, gstType, upTax, upNet)

PreviewSpec == PageStart /\ [][PreviewNext]_vars

\* WordsSpec: amounts of every size are spelled out in words
WordsNext == \E amount \in LargeAmounts : AmountInWords(amount)

WordsSpec == PageStart /\ [][WordsNext]_vars

\* DisplaySpec: amounts are formatted for display
DisplayNext ==
    \E pair \in DisplayPairs, isNegative \in BOOLEAN :
        FormatForDisplay(pair, isNegative)

DisplaySpec == PageStart /\ [][DisplayNext]_vars

\* DigitSpec: texts are parsed and converted between the digit scripts
DigitNext == \E text \in Texts : ConvertDigits(text)

DigitSpec == PageStart /\ [][DigitNext]_vars

\* PhoneticSpec: words are transliterated by the phonetic rules
PhoneticNext == \E word \in PhoneticWords : Transliterate(word)

PhoneticSpec == PageStart /\ [][PhoneticNext]_vars

\* the filters of the reports page are set in any order
SetFilter ==
    \/ \E value \in DateInputs : SetStartDate(value) \/ SetEndDate(value)
    \/ \E value \in ClientInputs : SetSelectedMovie(value)

\* ReportSpec: the invoices arrive, the filters are set and the report is
\* generated
ReportNext ==
    \/ \E list \in InvoiceLists, utcOffset \in UtcOffsets :
           FetchInvoices(list, utcOffset)
    \/ SetFilter
    \/ \E written \in BOOLEAN : ClickGenerateReport(written)

ReportSpec == PageStart /\ [][ReportNext]_vars

\* RevenueSpec: an invoice with any totals arrives
RevenueNext ==
    \/ \E list \in TotalsLists : FetchInvoices(list, 0)
    \/ SetFilter

RevenueSpec == PageStart /\ [][RevenueNext]_vars

\* SessionSpec: the home page and the login page are opened, the user logs
\* in and out, hours pass and the session checks run
SessionNext ==
    \/ LoadHomePage
    \/ RunLoginEffect
    \/ RunHomePageEffect
    \/ TimerTick
    \/ UserActivity
    \/ \E userid \in Userids, password \in Passwords, remember \in BOOLEAN :
           SubmitLogin(userid, password, remember)
    \/ Logout
    \/ OpenLoginPage
    \/ \E userid \in Userids, password \in Passwords, remember \in BOOLEAN :
           SubmitLoginPage(userid, password, remember)
    \/ HourPasses

SessionSpec == PageStart /\ [][SessionNext]_vars

\* ExportSpec: the invoice number is edited and "Download PDF & Save" is
\* clicked whenever the button is enabled
ExportNext ==
    \/ \E value \in InvoiceNumbers : SetInvoiceNo(value)
    \/ \E r \in Runs : ClickDownloadPDF(r)
    \/ \E r \in Runs, ok \in BOOLEAN : ImagesLoaded(r, ok)
    \/ \E r \in Runs, ok \in BOOLEAN : CanvasRendered(r, ok)
    \/ \E r \in Runs, ok \in BOOLEAN, confirmSave \in BOOLEAN :
           InvoicesFetched(r, ok, confirmSave)
    \/ \E r \in Runs, outcome \in PostOutcomes : UploadAnswered(r, outcome)

\* EditSpec: text fields are edited and left, and the engine settles the
\* blurs in flight in any order
EditNext ==
    \/ \E field \in TextFields, text \in BlurTexts :
           HandleBlurText(field, text)
    \/ \E blur \in 1..MaxBlurs, outcome \in Outcomes :
           BlurSettles(blur, outcome)

EditSpec == PageStart /\ [][EditNext]_vars

\* SavedSpec: the amounts are typed and the invoice is saved and read back
SavedNext ==
    \/ \E f \in SavedFields : \E t \in TypedTexts(f) : HandleBlur(f, t)
    \/ SaveEnrichedInvoice

SavedSpec == PageStart /\ [][SavedNext]_vars

ExportSpec == PageStart /\ [][ExportNext]_vars

\* the Excel page: a file is uploaded, previewed and saved
UploadNext ==
    \/ \E invoiceNo \in InvoiceNumbers : handleInvoiceChange(invoiceNo)
    \/ handlePreview
    \/ ClickSaveInvoice
    \/ \E ok \in BOOLEAN, confirmSave \in BOOLEAN :
           SaveInvoicesFetched(ok, confirmSave)
    \/ \E outcome \in PostOutcomes : SaveUploadAnswered(outcome)

\* SaveSpec: invoices are saved from the direct-entry page and from the
\* Excel page, one page at a time
SaveNext ==
    \/ ExportNext
    \/ UploadNext
    \/ \E to \in Routes : Navigate(to)

SaveSpec == PageStart /\ [][SaveNext]_vars

\* FairSaveSpec: the browser settles every fetch of a save (with a response
\* or a network error) and the user answers the confirm dialog
FairSaveSpec ==
    /\ SaveSpec
    /\ \A r \in Runs :
           /\ WF_vars(\E ok \in BOOLEAN, confirmSave \in BOOLEAN :
                          InvoicesFetched(r, ok, confirmSave))
           /\ WF_vars(\E outcome \in PostOutcomes : UploadAnswered(r, outcome))
    /\ WF_vars(\E ok \in BOOLEAN, confirmSave \in BOOLEAN :
                   SaveInvoicesFetched(ok, confirmSave))
    /\ WF_vars(\E outcome \in PostOutcomes : SaveUploadAnswered(outcome))

(***************************************************************************)
(* Claims about the loader (Spec, FairSpec).                               *)
(***************************************************************************)
AwaitsPendingLoad(c) ==
    /\ callers[c].pc = "awaitLoad"
    /\ loadState[callers[c].load] \in Pending

LoadPendingOrSucceeded == \E l \in Loads : loadState[l] \in Pending \cup {"class"}

LoadStarts == \E l \in Loads : loadState[l] = "unused" /\ loadState'[l] # "unused"

\* C1: overlapping callers of loadAksharamukha all await the one load in
\* flight (the load that loadPromise holds), at most one load is pending at a
\* time, and while a load is pending or after one succeeded no load is started
\* and no script is fetched.
C1_SharedLoad ==
    /\ [](/\ Cardinality({l \in Loads : loadState[l] \in Pending}) <= 1
          /\ \A c \in Callers :
                AwaitsPendingLoad(c) => callers[c].load = loadPromise)
    /\ [][LoadPendingOrSucceeded => (~LoadStarts /\ fetches' = fetches)]_vars

\* two callers overlap on one pending load
C1_Witness ==
    \E c1, c2 \in Callers :
        /\ c1 # c2
        /\ AwaitsPendingLoad(c1) /\ AwaitsPendingLoad(c2)
        /\ callers[c1].load = callers[c2].load
        /\ fetches = 1

\* C2: the backend instance is created at most once, and once
\* aksharamukhaInstance is non-null it is never replaced.
C2_InstanceCreatedOnce ==
    /\ [](newCalls <= 1)
    /\ [][aksharamukhaInstance # 0 =>
            aksharamukhaInstance' = aksharamukhaInstance]_vars

\* C3: every call that was made eventually returns.
C3_EveryCallReturns ==
    \A c \in Callers : (callers[c].pc # "idle") ~> (callers[c].pc = "done")

(***************************************************************************)
(* Claims about the engine (EngineSpec).                                   *)
(***************************************************************************)
LatinLetters == {"a", "b", "d", "e", "h", "i", "k", "l", "m", "r", "s", "u"}
                    \cup DOMAIN UpperToLower

HasLatinLetter(text) == \E i \in 1..Len(text) : text[i] \in LatinLetters
HasAsciiDigit(text) == \E i \in 1..Len(text) : text[i] \in AsciiDigits

WholeTextEntries == {"convertToMarathiAsync", "convertInputToMarathiAsync"}

\* the call of caller c is one of a text and has returned
Returned(c) == callers[c].pc = "done" /\ callers[c].entry \in Entries

\* C4: the engine never leaves a call rejected, and a call of the whole-text
\* entry points that no step improved (neither the dictionary nor the backend
\* was reached) returns the original text with its digits converted.
C4_NeverThrowsAndDegrades ==
    \A c \in Callers :
        /\ callers[c].pc # "rejected"
        /\ (/\ Returned(c)
            /\ callers[c].entry \in WholeTextEntries
            /\ ~callers[c].asked)
           => callers[c].out = convertNumbersToMarathi(callers[c].text)

\* C5: a dictionary word is returned as its dictionary value whatever the
\* state of the backend, and its call never waits for the loader or the
\* backend.
C5_DictionaryFirst ==
    \A c \in Callers :
        (callers[c].entry \in Entries /\ InDictionary(callers[c].text)) =>
            /\ callers[c].pc \in {"idle", "done"}
            /\ ~callers[c].asked
            /\ Returned(c) => callers[c].out = DictionaryValue(callers[c].text)

\* C6: with the backend unavailable (no window, load failed, no instance) a
\* Latin-script word comes back as a non-empty text with Devanagari
\* characters, not as the unchanged input.
C6_PhoneticFallback ==
    \A c \in Callers :
        (/\ Returned(c)
         /\ callers[c].inst = 0
         /\ ~callers[c].asked
         /\ HasLatinLetter(callers[c].text)
         /\ ~isMarathi(callers[c].text)
         /\ ~HasAsciiDigit(callers[c].text))
        => /\ callers[c].out # <<>>
           /\ isMarathi(callers[c].out)
           /\ callers[c].out # callers[c].text

\* C7: with the backend instance available, a whole-text call with a text of
\* several words that has ASCII digits and Latin words goes on to hand its
\* words to the backend: it does not return as soon as the digits are
\* converted.
C7_DigitsDoNotStopWords ==
    [][\A c \in Callers :
          (/\ callers[c].pc = "idle"
           /\ callers'[c].pc # "idle"
           /\ callers'[c].entry \in WholeTextEntries
           /\ aksharamukhaInstance # 0
           /\ HasAsciiDigit(callers'[c].text)
           /\ HasLatinLetter(callers'[c].text)
           /\ Len(SplitWords(callers'[c].text)) > 1)
          => callers'[c].pc # "done"]_vars

(***************************************************************************)
(* Claims about the Rupee/Paise calculations (PageSpec).                   *)
(***************************************************************************)
\* a whole number of paise from 0 to 99
InPaiseRange(paise) == paise % Unit = 0 /\ 0 <= paise /\ paise <= 99 * Unit

\* C8: every Rupee/Paise pair the program constructs has an integer paise
\* component in [0,99]: the pairs parseDecimalAmount stored in invoiceData,
\* the results of calculateRowTotal, calculateTotalSales,
\* calculateTotalExpenses and calculateNetBalance, and the split made by
\* amountToWordsWithPaise.
C8_PaiseInRange ==
    /\ \A f \in Fields :
           (f[3] = "paise" /\ invoiceData[f] # <<>>)
               => InPaiseRange(parseMarathiNumber(invoiceData[f]))
    /\ \A i \in GoodsRows :
           ~calculateRowTotal(i).null
               => InPaiseRange(calculateRowTotal(i).paise)
    /\ ~calculateTotalSales.null => InPaiseRange(calculateTotalSales.paise)
    /\ InPaiseRange(calculateTotalExpenses.paise)
    /\ ~calculateNetBalance.null => InPaiseRange(calculateNetBalance.paise)
    /\ InPaiseRange(amountInWords.paise)

\* the quantity and the unit price a goods row holds
RowQuantity(i) ==
    LET piece == parseMarathiNumber(OrZero(invoiceData[<<"row", i, "item">>]))
        crates == parseMarathiNumber(
                      OrZero(invoiceData[<<"row", i, "piece">>]))
    IN  IF piece > 0 THEN piece ELSE crates

RowPrice(i) == parseMarathiNumber(OrZero(invoiceData[<<"row", i, "price">>]))

\* C9: calculateRowTotal returns the null pair exactly when the quantity
\* (piece if positive, otherwise crates) or the unit price is zero or unset;
\* otherwise rs*100+paise is quantity times unit price rounded to the
\* nearest paisa.
C9_RowTotal ==
    \A i \in GoodsRows :
        LET rowTotal == calculateRowTotal(i)
            \* quantity * price in paise, both scaled by PaiseScale
            exact == RowQuantity(i) * RowPrice(i)
            got == (((rowTotal.rs * 100) + rowTotal.paise) \div Unit)
                   * PaiseScale
        IN  /\ rowTotal.null <=> (RowQuantity(i) = 0 \/ RowPrice(i) = 0)
            /\ ~rowTotal.null => 2 * Abs(got - exact) <= PaiseScale

RECURSIVE SumOfRows(_)
\* the sum of rs*100+paise over a set of goods rows
SumOfRows(rows) ==
    IF rows = {} THEN 0
    ELSE LET i == CHOOSE r \in rows : TRUE
         IN  (calculateRowTotal(i).rs * 100) + calculateRowTotal(i).paise
             + SumOfRows(rows \ {i})

\* C10: calculateTotalSales sums only the rows with a non-null row total; it
\* returns the null pair when that sum is exactly zero and otherwise the
\* pair whose value in paise is that sum.
C10_TotalSales ==
    LET sum == SumOfRows({i \in GoodsRows : ~calculateRowTotal(i).null})
        totalSales == calculateTotalSales
    IN  /\ totalSales.null <=> sum = 0
        /\ ~totalSales.null
               => (totalSales.rs * 100) + totalSales.paise = sum

RECURSIVE SumOfEntries(_)
\* the sum of rupee*100+paise over a set of rows <<kind, i>> of the expense
\* table
SumOfEntries(rows) ==
    IF rows = {} THEN 0
    ELSE LET r == CHOOSE x \in rows : TRUE
         IN  (parseMarathiNumber(OrZero(invoiceData[<<r[1], r[2], "rs">>]))
                  * 100)
             + parseMarathiNumber(OrZero(invoiceData[<<r[1], r[2], "paise">>]))
             + SumOfEntries(rows \ {r})

ExpenseTableRows ==
    ({"expense"} \X ExpenseRows) \cup ({"empty"} \X EmptyRows)

C12_ZeroExpensesShown ==
    LET data == prepareInvoiceDataForPreview
        saved == enrichedInvoiceData
    IN  /\ SumOfEntries(ExpenseTableRows) = 0 =>
               /\ data.totalExpensesFormatted # <<>>
               /\ ~saved.expensesRs.blank /\ saved.expensesRs.num = 0
               /\ ~saved.expensesPaise.blank /\ saved.expensesPaise.num = 0
        /\ calculateTotalSales.null => data.totalSalesFormatted = <<>>

\* the value in paise of a pair, the null pair counting as nothing
PaiseOf(pair) == IF pair.null THEN 0 ELSE (pair.rs * 100) + pair.paise

\* C13: calculateNetBalance returns the null amount when total sales is
\* null; otherwise its amount is the absolute value of total sales minus
\* total expenses in paise; and in every case isNegative is true if and only
\* if total sales is less than total expenses.
C13_NetBalance ==
    LET totalSales == calculateTotalSales
        totalExpenses == calculateTotalExpenses
        netBalance == calculateNetBalance
    IN  /\ totalSales.null => netBalance.null
        /\ ~totalSales.null =>
               /\ ~netBalance.null
               /\ (netBalance.rs * 100) + netBalance.paise
                      = Abs(PaiseOf(totalSales) - PaiseOf(totalExpenses))
        /\ netBalance.isNegative
               <=> PaiseOf(totalSales) < PaiseOf(totalExpenses)


(***************************************************************************)
(* Claims about the preview (PreviewSpec).                                 *)
(***************************************************************************)
\* r is a whole number of hundredths nearest to num / den
IsRound2(r, num, den) ==
    /\ r % (Unit \div 100) = 0
    /\ 2 * Abs((r * den) - num) <= (Unit \div 100) * den

\* C14: in IGST mode the whole rate is applied to the taxable base, CGST and
\* SGST are 0 and net is base + igst rounded to 2 decimals; otherwise CGST
\* and SGST are each base * (rate / 2) / 100 rounded to 2 decimals, equal to
\* each other, IGST is 0 and net is base + cgst + sgst rounded to 2
\* decimals; base 1000 at 18% gives 90.00, 90.00 and 1180.00.
C14_TaxDerivation ==
    tax.rendered =>
        LET base == tax.taxableAmount
            percent == tax.gstRate \div Unit
        IN  /\ tax.gstType = "IGST" =>
                   /\ tax.cgstVal = 0 /\ tax.sgstVal = 0
                   /\ IsRound2(tax.igstVal, base * percent, 100)
                   /\ IsRound2(tax.netAmountVal, base + tax.igstVal, 1)
            /\ tax.gstType # "IGST" =>
                   /\ tax.igstVal = 0
                   /\ IsRound2(tax.cgstVal, base * percent, 2 * 100)
                   /\ tax.sgstVal = tax.cgstVal
                   /\ IsRound2(tax.netAmountVal,
                               base + tax.cgstVal + tax.sgstVal, 1)
            /\ (base = 1000 * Unit /\ percent = 18 /\ tax.gstType # "IGST")
                   => /\ tax.cgstVal = 90 * Unit /\ tax.sgstVal = 90 * Unit
                      /\ tax.netAmountVal = 1180 * Unit

\* base 333.33 at 5% split in halves: 8.33 + 8.33 and 349.99, where a single
\* rounding at the end would give 350.00
C14_Witness ==
    /\ tax.rendered /\ tax.gstType = "CGST/SGST"
    /\ tax.taxableAmount = 333330 /\ tax.gstRate = 5 * Unit
    /\ tax.cgstVal = 8330 /\ tax.sgstVal = 8330
    /\ tax.netAmountVal = 349990

\* the words of the sentinel occur in a text of words
HasSentinel(words) ==
    \E i \in 1..Len(words) :
        /\ i + Len(AmountTooLarge) - 1 <= Len(words)
        /\ SubSeq(words, i, i + Len(AmountTooLarge) - 1) = AmountTooLarge

\* C15: for every amount n in [0, 999999999] the text amountToWordsWithPaise
\* returns is free of the sentinel "Amount too large", and for every amount
\* n > 999999999 the text carries the sentinel.
C15_SentinelBeyondLimit ==
    LET n == amountInWords.amount
        inRange == /\ n.floor >= 0
                   /\ (n.floor < WordsLimit
                       \/ (n.floor = WordsLimit /\ n.above = 0))
        beyond == (n.floor > WordsLimit)
                  \/ (n.floor = WordsLimit /\ n.above > 0)
    IN  /\ inRange => ~HasSentinel(amountInWords.words)
        /\ beyond => HasSentinel(amountInWords.words)

(***************************************************************************)
(* Claims about the formatters and the digit mappers (DisplaySpec).        *)
(***************************************************************************)
\* a non-empty text whose digits are all Devanagari digits
InDevanagariDigits(text) ==
    /\ \E i \in 1..Len(text) : text[i] \in DevanagariDigits
    /\ \A i \in 1..Len(text) : text[i] \notin AsciiDigits

\* the blank-on-zero rule for one formatted text
BlankOnZero(value, text) ==
    IF value.null \/ value.num = 0 THEN text = <<>>
    ELSE InDevanagariDigits(text)

\* C16: formatMarathiCurrency, the page-level formatAmount and
\* InvoicePreview's formatCurrencyValue each return the empty string for
\* null, undefined and 0, and for every other amount a non-empty string
\* whose digits are Devanagari digits.
C16_BlankOnZero ==
    /\ BlankOnZero(display.value, display.formatMarathiCurrency)
    /\ BlankOnZero(display.value, display.formatAmount)
    /\ BlankOnZero(display.value, display.formatCurrencyValue)

\* a text that is a number in either digit script: white space around it
\* and thousands separators apart, a sign, digits, and a point with digits
IsNumberText(text) ==
    LET t == SelectSeq(marathiToEnglish(trim(text)), LAMBDA ch : ch # ",")
        i0 == IF t # <<>> /\ t[1] \in {"+", "-"} THEN 2 ELSE 1
        i1 == DigitRun(t, i0)
        hasPoint == i1 <= Len(t) /\ t[i1] = "."
        end == IF hasPoint THEN DigitRun(t, i1 + 1) ELSE i1
        digits == (i1 - i0) + (IF hasPoint THEN end - (i1 + 1) ELSE 0)
    IN  digits > 0 /\ end = Len(t) + 1

\* C17: parseMarathiNumber returns a number for every text, in either digit
\* script and with or without thousands separators; it returns 0 for the
\* empty string and for every text that is not a valid number.
C17_ParseTotal ==
    /\ digitText.parseMarathiNumber \in Int
    /\ digitText.text = <<>> => digitText.parseMarathiNumber = 0
    /\ ~IsNumberText(digitText.text) => digitText.parseMarathiNumber = 0

\* the characters that are not digits stay where they are
KeepsOthers(text, mapped) ==
    /\ Len(mapped) = Len(text)
    /\ \A i \in 1..Len(text) :
           text[i] \notin (AsciiDigits \cup DevanagariDigits)
               => mapped[i] = text[i]

\* C18: marathiToEnglish and englishToMarathi are idempotent; converting a
\* text of ASCII digits to Devanagari, back and to Devanagari again gives
\* the first conversion; the mappers, convertNumbersToMarathi included,
\* keep the length of the text and its non-digit characters.
C18_DigitMappers ==
    LET x == digitText.text
        toEnglish == digitText.marathiToEnglish
        toMarathi == digitText.englishToMarathi
    IN  /\ marathiToEnglish(toEnglish) = toEnglish
        /\ englishToMarathi(toMarathi) = toMarathi
        /\ (\A i \in 1..Len(x) : x[i] \in AsciiDigits)
               => englishToMarathi(marathiToEnglish(toMarathi)) = toMarathi
        /\ KeepsOthers(x, toEnglish)
        /\ KeepsOthers(x, toMarathi)
        /\ KeepsOthers(x, digitText.convertNumbersToMarathi)

\* the text 1,1 becomes Devanagari 1,1 and comes back
C18_Witness ==
    /\ digitText.text = <<"1", ",", "1">>
    /\ digitText.englishToMarathi = <<"U0967", ",", "U0967">>
    /\ marathiToEnglish(digitText.englishToMarathi) = digitText.text

\* punctuation, white space and digits
IsCopiedChar(ch) == IsPunctChar(ch) \/ IsSpaceChar(ch) \/ ch \in AsciiDigits

\* C21: phoneticTransliterate returns for every word; a two-character
\* pattern at the start of the lowercased word is rendered as the pattern
\* and not as its first character alone; the punctuation, white space and
\* digit characters of the word appear in the output unchanged and in
\* their order.
C21_PhoneticScan ==
    LET lowerText == toLowerCase(phonetic.text)
        pair == <<lowerText[1], lowerText[2]>>
    IN  /\ phonetic.result \in Seq(STRING)
        /\ (Len(lowerText) > 2 /\ pair \in DOMAIN PhoneticPairs) =>
               SubSeq(phonetic.result, 1, Len(PhoneticPairs[pair]))
                   = PhoneticPairs[pair]
        /\ SelectSeq(phonetic.result, IsCopiedChar)
               = SelectSeq(phonetic.text, IsCopiedChar)

(***************************************************************************)
(* Claims about the reports page (ReportSpec, RevenueSpec).                *)
(***************************************************************************)
\* the run of generateExcelReport had a filter applied: a complete date
\* range or a selected client
FilterApplied(outcome) ==
    (outcome.startDate # 0 /\ outcome.endDate # 0)
    \/ outcome.selectedMovie # ""

\* C19: generateExcelReport writes a report file only when a filter is
\* actually applied (both dates, or a client) and the filtered invoices are
\* not empty; otherwise it shows an alert and writes no file; generatingReport
\* is false after every run.
C19_ReportOnlyWithFilter ==
    LET outcome == reports.outcome
    IN  /\ outcome.kind = "file" =>
               (FilterApplied(outcome) /\ outcome.rows > 0)
        /\ (outcome.kind # "none" /\ ~FilterApplied(outcome)) =>
               outcome.kind = "alert"
        /\ ~reports.generatingReport

\* a field carries a value: a number, or a text that is not blank
CarriesValue(value) ==
    value.kind = "number"
    \/ (value.kind = "string" /\ trim(value.text) # <<>>)

\* the number a field holds: a number as it is, a text after stripping the
\* non-numeric characters, 0 when that does not parse
HeldNumber(value) ==
    LET parsed ==
            parseFloat(SelectSeq(value.text, LAMBDA ch :
                           ch \in AsciiDigits \cup {".", "-"}))
    IN  IF value.kind = "number" THEN value.num
        ELSE IF parsed.nan THEN 0 ELSE parsed.val

\* C20: getGrandTotalFromInvoice returns the number held by the first of
\* grandTotalRs, grandTotal, netAmount and totalCollection that carries a
\* value, and 0 when none of them does.
C20_FirstFieldWithValue ==
    \A i \in 1..Len(reports.invoices) :
        LET data == reports.invoices[i].data
            got == getGrandTotalFromInvoice(reports.invoices[i])
        IN  got = (IF CarriesValue(data.grandTotalRs)
                   THEN HeldNumber(data.grandTotalRs)
                   ELSE IF CarriesValue(data.grandTotal)
                   THEN HeldNumber(data.grandTotal)
                   ELSE IF CarriesValue(data.netAmount)
                   THEN HeldNumber(data.netAmount)
                   ELSE IF CarriesValue(data.totalCollection)
                   THEN HeldNumber(data.totalCollection)
                   ELSE 0)


(***************************************************************************)
(* Claims about the session of the home page (SessionSpec).                 *)
(***************************************************************************)
\* the stored login is SESSION_TIMEOUT or more in the past
Expired(s) ==
    /\ s.loginTimestamp # NoItem
    /\ s.now - s.loginTimestamp[1] >= SESSION_TIMEOUT

\* C22: when the home page is loaded with rememberMe = "true" and a
\* loginTimestamp 4 hours or more old, no mount effect authenticates the
\* user or refreshes the stale timestamp, whichever of the two effects runs
\* first.
C22_StaleSessionStaysOut ==
    [][(/\ session.page = "home"
        /\ session.effects # {}
        /\ ~session.auth
        /\ session.rememberMe
        /\ Expired(session))
       => (/\ ~session'.auth
           /\ session'.loginTimestamp \in {session.loginTimestamp, NoItem})
      ]_vars

\* a session check runs: the minute timer or a user-activity event
SessionCheck == TimerTick \/ UserActivity

\* C23: while the Dashboard is shown the minute timer and the activity
\* listeners stay installed, and a session check that runs 4 hours or more
\* after the login sets auth to false and removes rememberMe and
\* loginTimestamp, whether or not the login was made with "Remember Me".
C23_SessionExpires ==
    /\ []((session.page = "home" /\ session.auth /\ session.effects = {})
          => (session.interval /\ session.listeners))
    /\ [][(SessionCheck /\ session.auth /\ Expired(session))
          => (/\ ~session'.auth
              /\ ~session'.rememberMe
              /\ session'.loginTimestamp = NoItem)]_vars

\* C30: a submitted login whose userid or password differs from the
\* configured ones changes nothing but the error message: auth stays false,
\* no page is mounted, and rememberMe and loginTimestamp keep their values.
C30_FailedLoginSetsOnlyError ==
    [][\A userid \in Userids, password \in Passwords, remember \in BOOLEAN :
          (/\ ~(userid = USERID /\ password = PASSWORD)
           /\ \/ SubmitLogin(userid, password, remember)
              \/ SubmitLoginPage(userid, password, remember))
          => (/\ ~session'.auth
              /\ session'.error # ""
              /\ session' = [session EXCEPT !.error = session'.error])]_vars

\* a login was refused while an earlier login's timestamp is still stored
C30_Witness ==
    /\ session.error # ""
    /\ ~session.auth
    /\ session.loginTimestamp # NoItem

(***************************************************************************)
(* Claims about exporting and saving an invoice (ExportSpec, SaveSpec).     *)
(***************************************************************************)
\* the runs of handleDownloadPDF that have started and not yet returned
ActiveRuns == {r \in Runs : exporter.runs[r].pc # "idle"}

\* the runs whose invoice-upload POST for this invoice number is in flight
PostsInFlight(invoiceNo) ==
    {r \in Runs : /\ exporter.runs[r].pc = "posting"
                  /\ exporter.runs[r].invoiceNo = invoiceNo}

\* C24: on the direct-entry page at most one export-and-save run is active
\* at any time, and no two invoice-upload POSTs for the same invoice number
\* are in flight together.
C24_OneExportAtATime ==
    /\ Cardinality(ActiveRuns) <= 1
    /\ \A invoiceNo \in InvoiceNumbers :
           Cardinality(PostsInFlight(invoiceNo)) <= 1

\* C25: when no run of handleDownloadPDF is active, the preview is in its
\* pre-export state: the input has its original display and visibility, no
\* replacement span is left, and the patched styles have their original
\* values.
C25_PreviewRestored ==
    (ActiveRuns = {})
        => (exporter.styles = OriginalStyles /\ exporter.spans = 0)

\* what a step does to one save: the run of saveInvoice or handleSaveInvoice
\* before and after the step, with the invoice data it must not touch
SaveStepAllowed(before, after, dataKept) ==
    /\ (before.pc # "posting" /\ after.pc = "posting")
           => /\ after.invoiceNo # ""
              /\ after.invoiceNo \notin backend \/ after.confirmed
    /\ (after.pc \in {"checking", "posting"}) => after.invoiceNo # ""
    /\ (before.pc = "checking" /\ after.pc = "idle")
           => (dataKept /\ backend' = backend)

C29_SavingFlagCleared ==
    /\ exporter.isSaving ~> ~exporter.isSaving
    /\ upload.isUploading ~> ~upload.isUploading
    /\ [][(/\ route' = route
           /\ \/ upload.invoiceData # <<>> /\ upload'.invoiceData = <<>>
              \/ upload.showPreview /\ ~upload'.showPreview)
          => SaveUploadAnswered("ok")]_vars

\* a save of the Excel page ended with an HTTP error: the flag is false
\* again and the invoice and its preview are kept
C29_Witness ==
    /\ upload.alert = "Error saving invoice: "
    /\ ~upload.isUploading
    /\ upload.pc = "idle"
    /\ upload.invoiceData # <<>>
    /\ upload.showPreview

(***************************************************************************)
(* Claims about the text fields of the direct-entry page (EditSpec).        *)
(***************************************************************************)
\* no blur of this field is in flight
Settled(field) ==
    \A blur \in 1..MaxBlurs :
        ~(/\ editor.inFlight[blur].state = "pending"
          /\ editor.inFlight[blur].field = field)

\* C26: once the blurs of a text field have all settled, in whatever order,
\* the text stored for the field is the one derived from the field's latest
\* blur; and a step stores into one field at most, so that an update of one
\* field never overwrites another.
C26_LatestBlurWins ==
    /\ [](\A field \in TextFields :
              Settled(field) => editor.origin[field] = editor.latest[field])
    /\ [][Cardinality({field \in TextFields :
                           editor'.fields[field] # editor.fields[field]}) <= 1
         ]_vars

(***************************************************************************)
(* Claims about the saved invoice (SavedSpec).                              *)
(***************************************************************************)
\* C27: the grand total that getGrandTotalFromInvoice reads from a saved
\* invoice is the signed net balance (total sales - total expenses, with
\* paise) computed when it was saved, and 0 when the net balance was null.
C27_GrandTotalReadBack ==
    savedInvoice.present
        => getGrandTotalFromInvoice(savedInvoice.invoice)
               = savedInvoice.netBalance

====
